---------------------------- MODULE Spec2Model ----------------------------
(***************************************************************************)
(* Supreme Court judgment scraper: the resumable segmented-crawl scheduler *)
(* (date_manager.py, SupremeCourtScraper.run) and the reconciliation step  *)
(* (SupremeCourtScraper._save_judgments_to_mongodb, mongodb_client.py).    *)
(*                                                                         *)
(* Dates are proleptic Gregorian ordinals, as datetime.toordinal() gives   *)
(* them; a DateRange is a record [start_date, end_date] of two ordinals.   *)
(* Text values are sequences of one-character strings and markup tokens.   *)
(***************************************************************************)
EXTENDS Integers, Sequences, FiniteSets, TLC

(***************************************************************************)
(* Bounds of the model.                                                    *)
(***************************************************************************)
MinYear == 2019
MaxYear == 2021
MaxChunkDays == 20
RunDaysMany == 70       \* max_days of the runs with more chunks than a checkpoint
RunDaysFew == 366       \* max_days of the runs with two chunks
MaxRuns == 2
MaxFaults == 1
MaxSaveFaults == 1
MaxCalls == 2
MaxSubmitted == 2
MaxAttempts == 2
MaxCaptured == 2
MaxRows == 2
MaxAnchors == 3

VARIABLES
    start_year,         \* DateManager.start_year
    end_year,           \* DateManager.end_year
    max_days,           \* DateManager.max_days
    gpc,                \* position in generate_date_ranges: "loop" | "done"
    current_date,       \* generate_date_ranges: current_date
    all_ranges,         \* the chunks yielded so far, collected by list()
    progress_file,      \* date_progress.json: absent, unparseable, or a document
    rpc,                \* position of the process in run(): "idle" | "loop"
    i,                  \* run(): number of ranges of remaining_ranges handled
    remaining_ranges,   \* run(): remaining_ranges
    completed_ranges,   \* run(): completed_ranges
    failed_ranges,      \* run(): failed_ranges
    runs,               \* number of runs started so far
    done_ok,            \* ranges for which process_date_range returned True
    faults,             \* number of ranges that failed or raised so far
    save_faults,        \* number of save_progress calls that did not finish
    last_remaining,     \* result of the latest get_remaining_ranges call
    calls,              \* get_remaining_ranges calls since the progress file
                        \* was last written (counted up to MaxCalls)
    collection,         \* MongoDBClient.collection: the documents, in
                        \* insertion order
    spc,                \* position in _save_judgments_to_mongodb
    todo,               \* judgments of the batch not handled yet
    saved_count,        \* _save_judgments_to_mongodb: saved_count
    duplicate_count,    \* _save_judgments_to_mongodb: duplicate_count
    save_result,        \* what the latest call returned
    log,                \* every judgment handled so far, with its id,
                        \* whether the content lookup answered, and how
                        \* the loop body ended for it
    last_result,        \* run(): how the latest process_date_range call ended
    run_failed,         \* ranges for which process_date_range returned False
                        \* or raised in the current run
    reset_done,         \* a confirmed reset-progress command has run since the
                        \* latest start of run()
    max_attempts,       \* config.captcha.max_captcha_attempts
    ppc,                \* position in process_date_range
    nav_attempt,        \* navigate_to_search_page: attempts made (tenacity)
    attempt,            \* CaptchaSolver.solve_captcha: attempts made
    captured_responses, \* SupremeCourtScraper.captured_responses
    api_endpoints,      \* whether SupremeCourtScraper.api_endpoints is non-empty
    judgments,          \* process_date_range: judgments
    parsed,             \* pairs <<k, d>>: while range k was processed, a
                        \* response captured during range d was parsed
    browser_open,       \* the Playwright page, browser and driver are open
    store_open,         \* the MongoClient is open
    interrupted,        \* number of the range in flight when the signal
                        \* arrived, 0 before
    collection_at_call, \* the collection when process_date_range was called
    pdr_exit,           \* the position process_date_range returned from
                        \* ("except": from its except Exception block)
    unread,             \* whether a body read has raised in _handle_response
    save_outcomes,      \* how each judgment of the batch ended in the save of
                        \* the latest process_date_range call
    tried,              \* the sources process_date_range asked in the latest
                        \* call, each with the number of records it returned
    soup,               \* the document tree handed to the parsers
    table_result,       \* what _parse_table_from_soup returned for it
    json_result,        \* what _parse_json_for_judgments returned for its
                        \* envelope
    page_result         \* what extract_judgment_links returned for it as
                        \* the content of the live page

config == <<start_year, end_year, max_days>>

genVars == <<gpc, current_date, all_ranges>>

runVars == <<progress_file, rpc, i, remaining_ranges, completed_ranges,
             failed_ranges, runs, done_ok, faults, save_faults,
             last_remaining, calls, last_result, run_failed, reset_done>>

saveVars == <<collection, spc, todo, saved_count, duplicate_count,
              save_result, log>>

pdrVars == <<max_attempts, ppc, nav_attempt, attempt, captured_responses,
             api_endpoints, judgments, parsed, browser_open, store_open,
             interrupted,
            collection_at_call, pdr_exit, unread, tried, save_outcomes>>

parseVars == <<soup, table_result, json_result, page_result>>

vars == <<config, genVars, runVars, saveVars, pdrVars, parseVars>>

(***************************************************************************)
(* datetime arithmetic                                                     *)
(***************************************************************************)
Min(a, b) == IF a <= b THEN a ELSE b

\* days before 1 January of year y (datetime._days_before_year)
DaysBeforeYear(y) ==
    LET p == y - 1 IN p * 365 + (p \div 4) - (p \div 100) + (p \div 400)

\* datetime(y, 1, 1) and datetime(y, 12, 31) as ordinals
Jan1(y) == DaysBeforeYear(y) + 1
Dec31(y) == DaysBeforeYear(y + 1)

DateRange(s, e) == [start_date |-> s, end_date |-> e]

(***************************************************************************)
(* DateManager.generate_date_ranges                                        *)
(***************************************************************************)
\* a chunk end that forgets the clamp to the end of the span
ChunkEndUnclamped(cur, last, md) == cur + (md - 1)

\* chunk_end = min(current_date + timedelta(days=max_days - 1), end_date)
ChunkEnd(cur, last, md) == Min(cur + (md - 1), last)

\* the while loop of the generator, collected into a list
RECURSIVE GenLoop(_, _, _, _)
GenLoop(cur, last, md, acc) ==
    IF cur <= last
    THEN LET chunk_end == ChunkEnd(cur, last, md)
         IN  GenLoop(chunk_end + 1, last, md,
                     Append(acc, DateRange(cur, chunk_end)))
    ELSE acc

generate_date_ranges(sy, ey, md) == GenLoop(Jan1(sy), Dec31(ey), md, <<>>)

get_all_date_ranges(sy, ey, md) == generate_date_ranges(sy, ey, md)

(***************************************************************************)
(* DateRange.to_dict / DateRange.from_dict: datetime.isoformat() and       *)
(* datetime.fromisoformat().  Every date of the scheduler is a midnight,   *)
(* so the text "YYYY-MM-DDT00:00:00" is modelled by its three numbers.     *)
(***************************************************************************)
IsLeap(y) == (y % 4 = 0) /\ ((y % 100 # 0) \/ (y % 400 = 0))

DaysBeforeMonthTable == <<0, 31, 59, 90, 120, 151, 181, 212, 243, 273, 304, 334>>

DaysInMonthTable == <<31, 28, 31, 30, 31, 30, 31, 31, 30, 31, 30, 31>>

DaysBeforeMonth(y, m) ==
    DaysBeforeMonthTable[m] + (IF m > 2 /\ IsLeap(y) THEN 1 ELSE 0)

DaysInMonth(y, m) ==
    IF m = 2 /\ IsLeap(y) THEN 29 ELSE DaysInMonthTable[m]

\* ordinal -> (year, month, day), the arithmetic of datetime
Ord2Ymd(ord) ==
    LET n0   == ord - 1
        n400 == n0 \div 146097
        r400 == n0 % 146097
        n100 == r400 \div 36524
        r100 == r400 % 36524
        n4   == r100 \div 1461
        r4   == r100 % 1461
        n1   == r4 \div 365
        n    == r4 % 365
        y    == n400 * 400 + 1 + n100 * 100 + n4 * 4 + n1
    IN  IF n1 = 4 \/ n100 = 4
        THEN [year |-> y - 1, month |-> 12, day |-> 31]
        ELSE LET m0   == (n + 50) \div 32
                 pre0 == DaysBeforeMonth(y, m0)
                 m    == IF pre0 > n THEN m0 - 1 ELSE m0
                 pre  == IF pre0 > n THEN pre0 - DaysInMonth(y, m) ELSE pre0
             IN  [year |-> y, month |-> m, day |-> n - pre + 1]

\* (year, month, day) -> ordinal
Ymd2Ord(t) == DaysBeforeYear(t.year) + DaysBeforeMonth(t.year, t.month) + t.day

isoformat(ord) == Ord2Ymd(ord)

fromisoformat(t) == Ymd2Ord(t)

\* a to_dict that writes the two dates under each other's key
to_dict_swapped(r) == [start_date |-> isoformat(r.end_date),
                       end_date   |-> isoformat(r.start_date)]

to_dict(r) == [start_date |-> isoformat(r.start_date),
               end_date   |-> isoformat(r.end_date)]

from_dict(d) == DateRange(fromisoformat(d.start_date), fromisoformat(d.end_date))

MapSeq(f(_), sq) == [k \in 1..Len(sq) |-> f(sq[k])]

SeqRange(sq) == {sq[k] : k \in 1..Len(sq)}

(***************************************************************************)
(* The progress file and DateManager.save_progress / load_progress /       *)
(* get_remaining_ranges                                                    *)
(***************************************************************************)
NoFile == [kind |-> "absent", completed_ranges |-> <<>>, failed_ranges |-> <<>>,
           total_completed |-> 0, total_failed |-> 0]

\* the file after open(progress_file, 'w') truncated it and json.dump did
\* not finish: it exists and json.load raises on it
CorruptFile == [kind |-> "corrupt", completed_ranges |-> <<>>,
                failed_ranges |-> <<>>, total_completed |-> 0, total_failed |-> 0]

\* a save that writes the completed ranges only
save_progress_completed_only(completed, failed) ==
    [kind |-> "ok",
     completed_ranges |-> MapSeq(to_dict, completed),
     failed_ranges    |-> <<>>,
     total_completed  |-> Len(completed),
     total_failed     |-> 0]

\* the document save_progress(completed, failed) writes
save_progress(completed, failed) ==
    [kind |-> "ok",
     completed_ranges |-> MapSeq(to_dict, completed),
     failed_ranges    |-> MapSeq(to_dict, failed),
     total_completed  |-> Len(completed),
     total_failed     |-> Len(failed)]

\* json.load(f): raises on a file that does not hold a whole document
json_load(file) == [raised |-> file.kind = "corrupt", progress_data |-> file]

\* load_progress without the try/except: the exception leaves the call
load_progress_unguarded(file) ==
    IF file.kind = "absent"
    THEN [raised |-> FALSE, completed |-> <<>>, failed |-> <<>>]
    ELSE LET loaded == json_load(file)
         IN  IF loaded.raised
             THEN [raised |-> TRUE, completed |-> <<>>, failed |-> <<>>]
             ELSE [raised |-> FALSE,
                   completed |-> MapSeq(from_dict,
                                        loaded.progress_data.completed_ranges),
                   failed    |-> MapSeq(from_dict,
                                        loaded.progress_data.failed_ranges)]

\* load_progress: ([], []) when the file is absent, and when reading or
\* parsing it raises (except Exception); raised tells whether an exception
\* leaves the call
load_progress(file) ==
    IF file.kind = "absent"
    THEN [raised |-> FALSE, completed |-> <<>>, failed |-> <<>>]
    ELSE LET loaded == json_load(file)
         IN  IF loaded.raised
             THEN [raised |-> FALSE, completed |-> <<>>, failed |-> <<>>]
             ELSE [raised |-> FALSE,
                   completed |-> MapSeq(from_dict,
                                        loaded.progress_data.completed_ranges),
                   failed    |-> MapSeq(from_dict,
                                        loaded.progress_data.failed_ranges)]

\* get_remaining_ranges without the retry of the failed ranges
get_remaining_ranges_no_retry(sy, ey, md, file) ==
    LET all == get_all_date_ranges(sy, ey, md)
        progress == load_progress(file)
        completed_set == {<<r.start_date, r.end_date>> :
                             r \in SeqRange(progress.completed)}
    IN  SelectSeq(all,
                  LAMBDA r : <<r.start_date, r.end_date>> \notin completed_set)

get_remaining_ranges(sy, ey, md, file) ==
    LET all == get_all_date_ranges(sy, ey, md)
        progress == load_progress(file)
        completed_set == {<<r.start_date, r.end_date>> :
                             r \in SeqRange(progress.completed)}
        remaining == SelectSeq(all,
                        LAMBDA r : <<r.start_date, r.end_date>> \notin completed_set)
    IN  remaining \o progress.failed

(***************************************************************************)
(* Text.  A string is a sequence of tokens: one-character strings and      *)
(* markup tags.  A value of a judgment mapping is a string, a list of      *)
(* strings or None.                                                        *)
(***************************************************************************)
Str(s) == [type |-> "str", val |-> s]

List(l) == [type |-> "list", val |-> l]

NoneVal == [type |-> "none", val |-> <<>>]

IsTag(t) == t \in {"<b>", "</b>"}

IsSpace(t) == t = " "

\* str.strip()
RECURSIVE LStrip(_)
LStrip(s) == IF s # <<>> /\ IsSpace(Head(s)) THEN LStrip(Tail(s)) ELSE s

RECURSIVE RStrip(_)
RStrip(s) ==
    IF s # <<>> /\ IsSpace(s[Len(s)]) THEN RStrip(SubSeq(s, 1, Len(s) - 1)) ELSE s

Strip(s) == RStrip(LStrip(s))

\* the text nodes of the parsed markup, in document order
RECURSIVE TextNodes(_, _)
TextNodes(s, cur) ==
    IF s = <<>>
    THEN IF cur = <<>> THEN <<>> ELSE <<cur>>
    ELSE IF IsTag(Head(s))
         THEN (IF cur = <<>> THEN <<>> ELSE <<cur>>) \o TextNodes(Tail(s), <<>>)
         ELSE TextNodes(Tail(s), Append(cur, Head(s)))

\* separator.join(parts)
RECURSIVE Join(_, _)
Join(parts, sep) ==
    IF parts = <<>> THEN <<>>
    ELSE IF Len(parts) = 1 THEN parts[1]
    ELSE parts[1] \o sep \o Join(Tail(parts), sep)

\* soup.get_text(separator=' ', strip=True): every text node stripped, the
\* empty ones dropped, joined by the separator
get_text(s, sep) ==
    LET stripped == MapSeq(Strip, TextNodes(s, <<>>))
    IN  Join(SelectSeq(stripped, LAMBDA n : n # <<>>), sep)

\* str.split(): the maximal runs of non-whitespace
RECURSIVE Split(_, _)
Split(s, cur) ==
    IF s = <<>>
    THEN IF cur = <<>> THEN <<>> ELSE <<cur>>
    ELSE IF IsSpace(Head(s))
         THEN (IF cur = <<>> THEN <<>> ELSE <<cur>>) \o Split(Tail(s), <<>>)
         ELSE Split(Tail(s), Append(cur, Head(s)))

\* a cleaning that takes the tags out and leaves the whitespace as it is
clean_html_content_keep_space(text) ==
    IF text = <<>> THEN <<>> ELSE Join(TextNodes(text, <<>>), <<>>)

\* SupremeCourtScraper._clean_html_content
clean_html_content(text) ==
    IF text = <<>>
    THEN <<>>
    ELSE LET cleaned_text == get_text(text, <<" ">>)
         IN  Join(Split(cleaned_text, <<>>), <<" ">>)

\* str.replace(old, new) for a one-character old
Replace(s, old, new) == [k \in 1..Len(s) |-> IF s[k] = old THEN new ELSE s[k]]

\* dict.get(key, default)
Get(d, key, default) == IF key \in DOMAIN d THEN d[key] ELSE default

\* truth value of a mapping value: None, "" and [] are false
Truthy(v) == v.val # <<>>

(***************************************************************************)
(* MongoDBClient: the collection is the sequence of inserted documents     *)
(***************************************************************************)
\* a content lookup that finds nothing
find_duplicate_by_content_blind(coll, diary_no, case_number, judgment_date, db_ok) ==
    NoneVal

\* find_duplicate_by_content: the judgment_id of the first document with
\* these three fields, or None; None as well when the query raises
\* (db_ok false)
find_duplicate_by_content(coll, diary_no, case_number, judgment_date, db_ok) ==
    LET hits == {k \in 1..Len(coll) :
                    /\ coll[k].diary_no = diary_no
                    /\ coll[k].case_number = case_number
                    /\ coll[k].judgment_date = judgment_date}
    IN  IF hits = {} \/ ~db_ok THEN NoneVal
        ELSE Str(coll[CHOOSE k \in hits : \A h \in hits : k <= h].judgment_id)

\* judgment_exists: count_documents({"judgment_id": judgment_id}) > 0,
\* False when the query raises (db_ok false)
judgment_exists(coll, judgment_id, db_ok) ==
    db_ok /\ \E k \in 1..Len(coll) : coll[k].judgment_id = judgment_id

\* insert_judgment: False on DuplicateKeyError (unique index on
\* judgment_id) and on any other exception (db_ok false)
insert_judgment(coll, doc, db_ok) ==
    IF (\E k \in 1..Len(coll) : coll[k].judgment_id = doc.judgment_id)
       \/ ~db_ok
    THEN [ok |-> FALSE, coll |-> coll]
    ELSE [ok |-> TRUE, coll |-> Append(coll, doc)]

(***************************************************************************)
(* SupremeCourtScraper._save_judgments_to_mongodb, one judgment            *)
(***************************************************************************)
\* the cleaned mapping: lists kept, non-empty strings cleaned, the rest ""
CleanJudgment(judgment) ==
    [key \in DOMAIN judgment |->
        IF judgment[key].type = "list" THEN judgment[key]
        ELSE IF Truthy(judgment[key])
             THEN Str(clean_html_content(judgment[key].val))
             ELSE Str(<<>>)]

\* diary_no = cleaned.get('diary_number') or cleaned.get('diary_no', '')
DiaryNo(cleaned) ==
    LET first == Get(cleaned, "diary_number", NoneVal)
    IN  IF Truthy(first) THEN first.val
        ELSE Get(cleaned, "diary_no", Str(<<>>)).val

CaseNumber(cleaned) == Get(cleaned, "case_number", Str(<<>>)).val

JudgmentDate(cleaned) == Get(cleaned, "judgment_date", Str(<<>>)).val

\* f"{diary_no}_{case_number}_{judgment_date}" with '/', ' ', ':' replaced
JudgmentId(diary_no, case_number, judgment_date) ==
    Replace(Replace(Replace(
        diary_no \o <<"_">> \o case_number \o <<"_">> \o judgment_date,
        "/", "_"), " ", "_"), ":", "_")

\* JudgmentMetadata(...).to_dict(), the fields the scraper sets
Metadata(cleaned, judgment_id) ==
    [judgment_id      |-> judgment_id,
     diary_number     |-> DiaryNo(cleaned),
     diary_no         |-> DiaryNo(cleaned),
     case_number      |-> CaseNumber(cleaned),
     judgment_date    |-> JudgmentDate(cleaned),
     pdf_links        |-> Get(cleaned, "pdf_links", List(<<>>)),
     judgment_links   |-> Get(cleaned, "judgment_links", List(<<>>)),
     pdf_link         |-> Get(cleaned, "pdf_link", Str(<<>>)),
     processing_status |-> "completed",
     search_from_date |-> NoneVal,
     search_to_date   |-> NoneVal]

\* a loop body that inserts without the two duplicate checks
SaveJudgmentUnchecked(coll, judgment, find_ok, exists_ok, insert_ok) ==
    LET cleaned == CleanJudgment(judgment)
        judgment_id == JudgmentId(DiaryNo(cleaned), CaseNumber(cleaned),
                                  JudgmentDate(cleaned))
        ins == insert_judgment(coll, Metadata(cleaned, judgment_id), insert_ok)
    IN  [outcome |-> IF ins.ok THEN "saved" ELSE "failed",
         coll |-> ins.coll, judgment_id |-> judgment_id]

\* the body of the loop for one judgment: what it does to the collection
\* and how it ends ("duplicate_content", "duplicate_id", "saved", "failed")
SaveJudgment(coll, judgment, find_ok, exists_ok, insert_ok) ==
    LET cleaned == CleanJudgment(judgment)
        diary_no == DiaryNo(cleaned)
        case_number == CaseNumber(cleaned)
        judgment_date == JudgmentDate(cleaned)
        existing_id == find_duplicate_by_content(coll, diary_no, case_number,
                                                 judgment_date, find_ok)
        judgment_id == JudgmentId(diary_no, case_number, judgment_date)
    IN  IF Truthy(existing_id)
        THEN [outcome |-> "duplicate_content", coll |-> coll,
              judgment_id |-> existing_id.val]
        ELSE IF judgment_exists(coll, judgment_id, exists_ok)
        THEN [outcome |-> "duplicate_id", coll |-> coll,
              judgment_id |-> judgment_id]
        ELSE LET ins == insert_judgment(coll, Metadata(cleaned, judgment_id),
                                        insert_ok)
             IN  [outcome |-> IF ins.ok THEN "saved" ELSE "failed",
                  coll |-> ins.coll, judgment_id |-> judgment_id]

(***************************************************************************)
(* The state of the scheduler before the first run                         *)
(***************************************************************************)
RunIdle ==
    /\ progress_file = NoFile
    /\ rpc = "idle"
    /\ i = 0
    /\ remaining_ranges = <<>>
    /\ completed_ranges = <<>>
    /\ failed_ranges = <<>>
    /\ runs = 0
    /\ done_ok = {}
    /\ faults = 0
    /\ save_faults = 0
    /\ last_remaining = <<>>
    /\ calls = 0
    /\ last_result = "none"
    /\ run_failed = {}
    /\ reset_done = FALSE

GenIdle ==
    /\ gpc = "done"
    /\ current_date = 0
    /\ all_ranges = <<>>

SaveIdle ==
    /\ collection = <<>>
    /\ spc = "idle"
    /\ todo = 0
    /\ saved_count = 0
    /\ duplicate_count = 0
    /\ save_result = "none"
    /\ log = <<>>

\* the scraper before run() is called
PdrIdle ==
    /\ max_attempts = 0
    /\ ppc = "idle"
    /\ nav_attempt = 0
    /\ attempt = 0
    /\ captured_responses = <<>>
    /\ api_endpoints = FALSE
    /\ judgments = <<>>
    /\ parsed = {}
    /\ browser_open = FALSE
    /\ store_open = FALSE
    /\ interrupted = 0
    /\ collection_at_call = <<>>
    /\ pdr_exit = "none"
    /\ unread = FALSE
    /\ tried = <<>>
    /\ save_outcomes = <<>>

NotParsed == [done |-> FALSE, source |-> "none", records |-> <<>>]

NoSoup == [table |-> FALSE, tbody |-> FALSE, rows |-> <<>>]

ParseIdle ==
    /\ soup = NoSoup
    /\ table_result = NotParsed
    /\ json_result = NotParsed
    /\ page_result = NotParsed

(***************************************************************************)
(* Specification SpecGen: the partition, for every configuration           *)
(***************************************************************************)
Years == MinYear..MaxYear

\* passes of the generator loop that are followed: the number of days from
\* 1 Jan of the first year to 31 Dec of the last one, which no partition
\* into chunks of at least one day exceeds
MaxChunks == Dec31(MaxYear) - Jan1(MinYear) + 1

\* max_date_range_days is a plain int field that AppConfig.validate does not
\* look at: a value that makes the first chunk end before 0001-01-01, the
\* values -1 and 0, and the positive chunk lengths
AnyDays == {-Dec31(MaxYear)} \cup (-1..MaxChunkDays)

InitGen ==
    /\ start_year \in Years
    /\ end_year \in Years
    /\ start_year < end_year
    /\ max_days \in 1..MaxChunkDays
    /\ gpc = "loop"
    /\ current_date = Jan1(start_year)
    /\ all_ranges = <<>>
    /\ RunIdle
    /\ SaveIdle
    /\ PdrIdle
    /\ ParseIdle

\* one pass of the while loop: yield a chunk and move to the next one
GenYield ==
    /\ gpc = "loop"
    /\ current_date <= Dec31(end_year)
    /\ Len(all_ranges) < MaxChunks
    /\ IF ChunkEndUnclamped(current_date, Dec31(end_year), max_days) < 1
       THEN \* current_date + timedelta(...) is before 0001-01-01, the first
            \* day a datetime holds: OverflowError
            /\ gpc' = "raised"
            /\ UNCHANGED <<current_date, all_ranges>>
       ELSE LET chunk_end == ChunkEnd(current_date, Dec31(end_year), max_days)
            IN  /\ all_ranges' = Append(all_ranges,
                                        DateRange(current_date, chunk_end))
                /\ current_date' = chunk_end + 1
                /\ gpc' = gpc
    /\ UNCHANGED <<config, runVars, saveVars, pdrVars, parseVars>>

\* the loop condition fails: the generator is exhausted
GenStop ==
    /\ gpc = "loop"
    /\ ~(current_date <= Dec31(end_year))
    /\ gpc' = "done"
    /\ UNCHANGED <<config, current_date, all_ranges, runVars, saveVars, pdrVars, parseVars>>

NextGen == GenYield \/ GenStop

SpecGen == InitGen /\ [][NextGen]_vars

\* any configuration AppConfig.validate accepts
InitGenAny ==
    /\ start_year \in Years
    /\ end_year \in Years
    /\ start_year < end_year
    /\ max_days \in AnyDays
    /\ gpc = "loop"
    /\ current_date = Jan1(start_year)
    /\ all_ranges = <<>>
    /\ RunIdle
    /\ SaveIdle
    /\ PdrIdle
    /\ ParseIdle

\* list(self.generate_date_ranges()) keeps asking the generator for the next
\* chunk until it is exhausted or raises
SpecGenFair == InitGenAny /\ [][NextGen]_vars /\ WF_vars(NextGen)

(***************************************************************************)
(* Specification SpecRun: SupremeCourtScraper.run, run after run, on one   *)
(* progress file; the process may die at any point                         *)
(***************************************************************************)
\* if i % 10 == 0: save_progress
CheckpointInterval == 10

InitRun ==
    /\ start_year \in Years
    /\ end_year = start_year + 1
    /\ end_year \in Years
    /\ max_days \in {RunDaysMany, RunDaysFew}
    /\ GenIdle
    /\ RunIdle
    /\ SaveIdle
    /\ PdrIdle
    /\ ParseIdle

\* the locals of run() are gone once the process has ended
EndOfProcess ==
    /\ rpc' = "idle"
    /\ i' = 0
    /\ remaining_ranges' = <<>>
    /\ completed_ranges' = <<>>
    /\ failed_ranges' = <<>>
    /\ last_result' = "none"
    /\ run_failed' = {}

\* run(), up to the loop: remaining_ranges = get_remaining_ranges()
RunStart ==
    /\ rpc = "idle"
    /\ runs < MaxRuns
    /\ runs' = runs + 1
    /\ IF load_progress(progress_file).raised
       THEN \* except Exception: raise; the run ends before the loop
            /\ EndOfProcess
            /\ UNCHANGED <<last_remaining, calls>>
       ELSE /\ LET remaining == get_remaining_ranges(start_year, end_year,
                                                     max_days, progress_file)
               IN  /\ remaining_ranges' = remaining
                   /\ last_remaining' = remaining
            /\ calls' = Min(calls + 1, MaxCalls)
            /\ completed_ranges' = <<>>
            /\ failed_ranges' = <<>>
            /\ last_result' = "none"
            /\ run_failed' = {}
            /\ i' = 0
            /\ rpc' = "loop"
    /\ reset_done' = FALSE
    /\ UNCHANGED <<config, genVars, saveVars, pdrVars, parseVars, progress_file, done_ok, faults, save_faults>>

\* process_date_range returned True: with judgments ("true"), or at
\* "No judgments found for date range" ("empty")
OkResults == {"true", "empty"}

\* one pass of the loop of run() over remaining_ranges, checkpoint included.
\* result: what process_date_range did; saved: what the checkpoint's
\* save_progress did ("ok", "raise" before the file was opened,
\* "partial" raise after the file was truncated, "die" while writing it)
RunIter ==
    /\ rpc = "loop"
    /\ i < Len(remaining_ranges)
    /\ \E result \in OkResults \cup {"false", "raise"},
          saved \in {"ok", "raise", "partial", "die"} :
        LET date_range == remaining_ranges[i + 1]
            n == i + 1
            due == result # "raise" /\ n % CheckpointInterval = 0
            completed1 == IF result \in OkResults
                          THEN Append(completed_ranges, date_range)
                          ELSE completed_ranges
            failed1 == IF result \in OkResults
                       THEN failed_ranges
                       ELSE Append(failed_ranges, date_range)
        IN  /\ result \notin OkResults => faults < MaxFaults
            /\ faults' = IF result \in OkResults THEN faults ELSE faults + 1
            /\ done_ok' = IF result \in OkResults
                          THEN done_ok \cup {date_range} ELSE done_ok
            /\ ~due => saved = "ok"
            /\ saved # "ok" => save_faults < MaxSaveFaults
            /\ save_faults' = IF saved = "ok" THEN save_faults
                                              ELSE save_faults + 1
            /\ progress_file' =
                  IF ~due \/ saved = "raise" THEN progress_file
                  ELSE IF saved = "ok" THEN save_progress(completed1, failed1)
                  ELSE CorruptFile
            /\ calls' = IF ~due \/ saved = "raise" THEN calls ELSE 0
            /\ IF saved = "die"
               THEN EndOfProcess
               ELSE /\ completed_ranges' = completed1
                    \* except Exception: failed_ranges.append(date_range)
                    /\ failed_ranges' = IF saved = "ok" THEN failed1
                                        ELSE Append(failed1, date_range)
                    /\ last_result' = result
                    /\ run_failed' = IF result \in OkResults THEN run_failed
                                     ELSE run_failed \cup {date_range}
                    /\ i' = n
                    /\ UNCHANGED <<rpc, remaining_ranges>>
    /\ UNCHANGED <<config, genVars, saveVars, pdrVars, parseVars, runs, last_remaining,
                   reset_done>>

\* after the loop: the final save_progress, then the process ends
RunFinish ==
    /\ rpc = "loop"
    /\ i = Len(remaining_ranges)
    /\ \E saved \in {"ok", "raise", "partial", "die"} :
        /\ saved # "ok" => save_faults < MaxSaveFaults
        /\ save_faults' = IF saved = "ok" THEN save_faults ELSE save_faults + 1
        /\ progress_file' =
              IF saved = "raise" THEN progress_file
              ELSE IF saved = "ok"
                   THEN save_progress(completed_ranges, failed_ranges)
                   ELSE CorruptFile
        /\ calls' = IF saved = "raise" THEN calls ELSE 0
    /\ EndOfProcess
    /\ UNCHANGED <<config, genVars, saveVars, pdrVars, parseVars, runs, done_ok, faults,
                   last_remaining, reset_done>>

\* the process dies between two passes of the loop (kill, power loss)
Crash ==
    /\ rpc = "loop"
    /\ EndOfProcess
    /\ UNCHANGED <<config, genVars, saveVars, pdrVars, parseVars, progress_file, runs, done_ok, faults,
                   save_faults, last_remaining, calls, reset_done>>

\* a get_remaining_ranges call that takes the failed ranges out of the file
ShowStatisticsConsuming ==
    /\ rpc = "idle"
    /\ ~load_progress(progress_file).raised
    /\ last_remaining' = get_remaining_ranges(start_year, end_year, max_days,
                                              progress_file)
    /\ calls' = Min(calls + 1, MaxCalls)
    /\ progress_file' = IF progress_file.kind = "ok"
                        THEN [progress_file EXCEPT !.failed_ranges = <<>>]
                        ELSE progress_file
    /\ UNCHANGED <<config, genVars, saveVars, pdrVars, parseVars, rpc, i,
                   remaining_ranges, completed_ranges, failed_ranges, runs,
                   done_ok, faults, save_faults, last_result, run_failed,
                   reset_done>>

\* ScraperCLI.show_statistics: get_progress_summary calls load_progress and
\* get_remaining_ranges
ShowStatistics ==
    /\ rpc = "idle"
    /\ ~load_progress(progress_file).raised
    /\ last_remaining' = get_remaining_ranges(start_year, end_year, max_days,
                                              progress_file)
    /\ calls' = Min(calls + 1, MaxCalls)
    /\ UNCHANGED <<config, genVars, saveVars, pdrVars, parseVars,
                   progress_file, rpc, i, remaining_ranges, completed_ranges,
                   failed_ranges, runs, done_ok, faults, save_faults,
                   last_result, run_failed, reset_done>>

\* ScraperCLI.reset_progress: after the answer yes the file
\* "scraping_progress.json" is unlinked if it exists; the file DateManager
\* reads and writes is "date_progress.json"
ResetProgress ==
    /\ rpc = "idle"
    /\ \E response \in {"yes", "no"} :
        LET scheduler_file == "date_progress.json"
            reset_file == "scraping_progress.json"
        IN  /\ progress_file' = IF response = "yes" /\ reset_file = scheduler_file
                                THEN NoFile ELSE progress_file
            /\ reset_done' = (reset_done \/ response = "yes")
    /\ UNCHANGED <<config, genVars, saveVars, pdrVars, parseVars, rpc, i,
                   remaining_ranges, completed_ranges, failed_ranges, runs,
                   done_ok, faults, save_faults, last_remaining, calls,
                   last_result, run_failed>>

NextRun ==
    RunStart \/ RunIter \/ RunFinish \/ Crash \/ ShowStatistics \/ ResetProgress

SpecRun == InitRun /\ [][NextRun]_vars

\* a pass of the loop that the process survives
RunIterAlive == RunIter /\ rpc' = "loop"

\* the runs in which no interrupt arrives: the process is not killed
\* between two passes or inside a checkpoint save
NextRunFair ==
    RunStart \/ RunIterAlive \/ RunFinish \/ ShowStatistics \/ ResetProgress

\* every call run() makes returns or raises in finite time, so a started
\* loop takes its next pass and, after the last one, the final save
SpecRunFair ==
    InitRun /\ [][NextRunFair]_vars /\ WF_vars(RunIterAlive) /\ WF_vars(RunFinish)

(***************************************************************************)
(* Specification SpecSave: calls of _save_judgments_to_mongodb on one      *)
(* collection, with judgments as the extractors hand them over             *)
(***************************************************************************)
Diary1 == <<"1", "/", "9">>
Diary2 == <<"2", "/", "9">>
Case1 == <<"C", "1">>
Date1 == <<"5", "-", "1">>
Url1 == <<"u", "1">>

Judgment(diary_no, case_number, judgment_date) ==
    [diary_no |-> Str(diary_no), case_number |-> Str(case_number),
     judgment_date |-> Str(judgment_date)]

RawJudgments ==
    { Judgment(Diary1, Case1, Date1),
      \* the same values inside markup and whitespace
      Judgment(<<"<b>">> \o Diary1 \o <<"</b>">>,
               <<" ">> \o Case1 \o <<" ">>,
               <<"<b>", " ">> \o Date1 \o <<"</b>", " ">>),
      \* the same values in lower case
      Judgment(Diary1, <<"c", "1">>, Date1),
      \* a table row: both diary keys and the link lists
      [diary_number |-> Str(Diary1), diary_no |-> Str(Diary1),
       case_number |-> Str(Case1), judgment_date |-> Str(Date1),
       pdf_links |-> List(<<Url1>>), judgment_links |-> List(<<Url1>>),
       pdf_link |-> Str(Url1)],
      \* a row of fewer than 8 cells: no judgment date
      [diary_number |-> Str(Diary1), diary_no |-> Str(Diary1),
       case_number |-> Str(Case1)],
      \* a JSON item with a link only
      [pdf_link |-> Str(Url1), judgment_date |-> Str(Date1)],
      Judgment(Diary2, Case1, Date1),
      \* a diary number that differs in a replaced character only
      Judgment(<<"1", "_", "9">>, Case1, Date1) }

InitSave ==
    /\ start_year = MinYear
    /\ end_year = MinYear + 1
    /\ max_days = RunDaysFew
    /\ GenIdle
    /\ RunIdle
    /\ SaveIdle
    /\ PdrIdle
    /\ ParseIdle

\* if not judgments: return True
SaveNothing ==
    /\ spc = "idle"
    /\ save_result' = "true"
    /\ UNCHANGED <<config, genVars, runVars, pdrVars, parseVars, collection, spc, todo,
                   saved_count, duplicate_count, log>>

\* a call with a batch of n judgments starts
SaveBegin ==
    /\ spc = "idle"
    /\ \E n \in 1..(MaxSubmitted - Len(log)) : todo' = n
    /\ saved_count' = 0
    /\ duplicate_count' = 0
    /\ spc' = "loop"
    /\ UNCHANGED <<config, genVars, runVars, pdrVars, parseVars, collection, save_result, log>>

\* the loop body for the next judgment of the batch
SaveOne ==
    /\ spc = "loop"
    /\ todo > 0
    /\ \E judgment \in RawJudgments,
          find_ok \in BOOLEAN, exists_ok \in BOOLEAN, insert_ok \in BOOLEAN :
        LET r == SaveJudgment(collection, judgment, find_ok, exists_ok,
                              insert_ok)
        IN  /\ collection' = r.coll
            /\ saved_count' = IF r.outcome = "saved"
                              THEN saved_count + 1 ELSE saved_count
            /\ duplicate_count' =
                  IF r.outcome \in {"duplicate_content", "duplicate_id"}
                  THEN duplicate_count + 1 ELSE duplicate_count
            /\ log' = Append(log, [judgment |-> judgment,
                                   judgment_id |-> r.judgment_id,
                                   find_ok |-> find_ok,
                                   outcome |-> r.outcome])
    /\ todo' = todo - 1
    /\ UNCHANGED <<config, genVars, runVars, pdrVars, parseVars, spc, save_result>>

\* return saved_count > 0
SaveEnd ==
    /\ spc = "loop"
    /\ todo = 0
    /\ save_result' = IF saved_count > 0 THEN "true" ELSE "false"
    /\ spc' = "idle"
    /\ UNCHANGED <<config, genVars, runVars, pdrVars, parseVars, collection, todo, saved_count,
                   duplicate_count, log>>

NextSave == SaveNothing \/ SaveBegin \/ SaveOne \/ SaveEnd

SpecSave == InitSave /\ [][NextSave]_vars

(***************************************************************************)
(* Specification SpecRange: one run of SupremeCourtScraper.run with the    *)
(* steps of process_date_range, the capture callbacks of the page, and a   *)
(* SIGINT/SIGTERM that ScraperCLI._signal_handler handles                  *)
(***************************************************************************)
\* @retry(stop=stop_after_attempt(3)) on navigate_to_search_page
NavAttempts == 3

\* the bodies a captured response can have, as the records the parsing
\* strategies find in it
Bodies == {<<>>, <<Judgment(Diary1, Case1, Date1)>>}

\* _extract_from_network_responses looks at a response when it is the
\* analytics call ("ga"), a judgment API call ("api"), or longer than
\* 10000 characters; "other" stands for the rest
ResponseKinds == {"ga", "api", "other"}

\* a loop over the batch that ends at the first judgment that is not saved
RECURSIVE SaveBatchUntilFailure(_, _, _)
SaveBatchUntilFailure(coll, batch, oks) ==
    IF batch = <<>> THEN [coll |-> coll, outcomes |-> <<>>]
    ELSE LET r == SaveJudgment(coll, Head(batch), Head(oks), Head(oks), Head(oks))
             rest == SaveBatchUntilFailure(r.coll, Tail(batch), Tail(oks))
         IN  IF r.outcome = "failed"
             THEN [coll |-> r.coll, outcomes |-> <<r.outcome>>]
             ELSE [coll |-> rest.coll, outcomes |-> <<r.outcome>> \o rest.outcomes]

\* _save_judgments_to_mongodb(batch) on the collection: the loop over the
\* batch; oks[k] tells whether the store answers for the k-th judgment
\* (when it does not, the lookups find nothing and insert_judgment fails)
RECURSIVE SaveBatch(_, _, _)
SaveBatch(coll, batch, oks) ==
    IF batch = <<>> THEN [coll |-> coll, outcomes |-> <<>>]
    ELSE LET r == SaveJudgment(coll, Head(batch), Head(oks), Head(oks), Head(oks))
             rest == SaveBatch(r.coll, Tail(batch), Tail(oks))
         IN  [coll |-> rest.coll, outcomes |-> <<r.outcome>> \o rest.outcomes]

\* the responses _extract_from_network_responses parses
Handled(responses) == SelectSeq(responses, LAMBDA r : r.kind # "other")

\* _extract_from_network_responses: the records of every handled response
\* of the capture list, in capture order
RECURSIVE ExtractRecords(_)
ExtractRecords(responses) ==
    IF responses = <<>> THEN <<>>
    ELSE (IF Head(responses).kind # "other" THEN Head(responses).records
          ELSE <<>>) \o ExtractRecords(Tail(responses))

\* the analytics branch saves what it extracted right away
RECURSIVE ExtractSaves(_, _, _)
ExtractSaves(coll, responses, db_ok) ==
    IF responses = <<>> THEN coll
    ELSE ExtractSaves(IF Head(responses).kind = "ga"
                      THEN SaveBatch(coll, Head(responses).records,
                               [k \in 1..Len(Head(responses).records) |-> db_ok]).coll
                      ELSE coll,
                      Tail(responses), db_ok)

InitRange ==
    /\ start_year = MinYear
    /\ end_year = MinYear + 1
    /\ max_days = RunDaysFew
    /\ GenIdle
    /\ RunIdle
    /\ SaveIdle
    /\ ParseIdle
    /\ max_attempts \in 0..MaxAttempts
    /\ ppc = "idle"
    /\ nav_attempt = 0
    /\ attempt = 0
    /\ captured_responses = <<>>
    /\ api_endpoints = FALSE
    /\ judgments = <<>>
    /\ parsed = {}
    /\ browser_open = FALSE
    /\ store_open = TRUE
    /\ interrupted = 0
    /\ collection_at_call = <<>>
    /\ pdr_exit = "none"
    /\ unread = FALSE
    /\ tried = <<>>
    /\ save_outcomes = <<>>

\* what no step of the run changes
RangeFrame == <<config, genVars, parseVars, spc, todo, saved_count,
                duplicate_count, save_result, log, faults, save_faults,
                last_remaining, calls, reset_done, max_attempts>>

\* the bookkeeping of run() that a step inside process_date_range leaves
RunLocals == <<progress_file, rpc, i, remaining_ranges, completed_ranges,
               failed_ranges, runs, done_ok, last_result, run_failed>>

\* what is remembered of the calls of process_date_range
PdrHist == <<collection_at_call, pdr_exit, tried, save_outcomes>>

\* the locals of process_date_range are gone
PdrDone ==
    /\ ppc' = "idle"
    /\ nav_attempt' = 0
    /\ attempt' = 0
    /\ judgments' = <<>>

\* run(): setup_browser and get_remaining_ranges, up to the loop
RangeStart ==
    /\ rpc = "idle"
    /\ runs = 0
    /\ runs' = 1
    /\ browser_open' = TRUE
    /\ remaining_ranges' = get_remaining_ranges(start_year, end_year, max_days,
                                                progress_file)
    /\ completed_ranges' = <<>>
    /\ failed_ranges' = <<>>
    /\ i' = 0
    /\ rpc' = "loop"
    /\ UNCHANGED <<RangeFrame, PdrHist, progress_file, done_ok, last_result,
                   run_failed, collection, ppc, nav_attempt, attempt, captured_responses, unread,
                   api_endpoints, judgments, parsed, store_open, interrupted>>

\* for i, date_range in enumerate(remaining_ranges, 1): process_date_range
PdrCall ==
    /\ rpc = "loop"
    /\ ppc = "idle"
    /\ i < Len(remaining_ranges)
    /\ ppc' = "navigate"
    /\ collection_at_call' = collection
    /\ pdr_exit' = "none"
    /\ tried' = <<>>
    /\ save_outcomes' = <<>>
    /\ UNCHANGED <<RangeFrame, RunLocals, collection, nav_attempt, attempt,
                   captured_responses, unread, api_endpoints, judgments, parsed,
                   browser_open, store_open, interrupted>>

\* process_date_range returns result to run(): the range goes to
\* completed_ranges or failed_ranges, and every tenth pass saves progress
Return(result, position, sources, outcomes) ==
    LET date_range == remaining_ranges[i + 1]
        n == i + 1
        completed1 == IF result \in OkResults
                      THEN Append(completed_ranges, date_range)
                      ELSE completed_ranges
        failed1 == IF result \in OkResults
                   THEN failed_ranges
                   ELSE Append(failed_ranges, date_range)
    IN  /\ completed_ranges' = completed1
        /\ failed_ranges' = failed1
        /\ progress_file' = IF n % CheckpointInterval = 0
                            THEN save_progress(completed1, failed1)
                            ELSE progress_file
        /\ done_ok' = IF result \in OkResults
                      THEN done_ok \cup {date_range} ELSE done_ok
        /\ last_result' = result
        /\ run_failed' = IF result \in OkResults THEN run_failed
                         ELSE run_failed \cup {date_range}
        /\ i' = n
        /\ pdr_exit' = position
        /\ tried' = sources
        /\ save_outcomes' = outcomes
        /\ PdrDone
        /\ UNCHANGED <<rpc, remaining_ranges, runs, collection_at_call>>

\* what the page callbacks and the signal handler own
PdrEnv == <<captured_responses, unread, api_endpoints, parsed, browser_open,
            store_open, interrupted>>

\* a navigation that is tried once more than NavAttempts times
NavigateOnceMore ==
    /\ ppc = "navigate"
    /\ \E outcome \in {"ok", "wrong_page", "raise"} :
        /\ ~browser_open => outcome = "raise"
        /\ CASE outcome = "ok" ->
                  /\ ppc' = "fill"
                  /\ nav_attempt' = 0
                  /\ UNCHANGED <<RunLocals, PdrHist, attempt, judgments>>
             [] outcome = "wrong_page" -> Return("false", ppc, tried, save_outcomes)
             [] outcome = "raise" ->
                  IF nav_attempt >= NavAttempts
                  THEN Return("false", "except", tried, save_outcomes)
                  ELSE /\ nav_attempt' = nav_attempt + 1
                       /\ UNCHANGED <<RunLocals, PdrHist, ppc, attempt, judgments>>
    /\ UNCHANGED <<RangeFrame, PdrEnv, collection>>

\* navigate_to_search_page, one attempt: True, False on an unexpected URL,
\* or an exception that tenacity retries until NavAttempts attempts are
\* used up; the RetryError is caught by process_date_range
Navigate ==
    /\ ppc = "navigate"
    /\ \E outcome \in {"ok", "wrong_page", "raise"} :
        /\ ~browser_open => outcome = "raise"
        /\ CASE outcome = "ok" ->
                  /\ ppc' = "fill"
                  /\ nav_attempt' = 0
                  /\ UNCHANGED <<RunLocals, PdrHist, attempt, judgments>>
             [] outcome = "wrong_page" -> Return("false", ppc, tried, save_outcomes)
             [] outcome = "raise" ->
                  IF nav_attempt + 1 >= NavAttempts
                  THEN Return("false", "except", tried, save_outcomes)
                  ELSE /\ nav_attempt' = nav_attempt + 1
                       /\ UNCHANGED <<RunLocals, PdrHist, ppc, attempt, judgments>>
    /\ UNCHANGED <<RangeFrame, PdrEnv, collection>>

\* fill_search_form
Fill ==
    /\ ppc = "fill"
    /\ \E outcome \in BOOLEAN :
        /\ ~browser_open => ~outcome
        /\ IF outcome
           THEN /\ ppc' = "solve"
                /\ UNCHANGED <<RunLocals, PdrHist, nav_attempt, attempt, judgments>>
           ELSE Return("false", ppc, tried, save_outcomes)
    /\ UNCHANGED <<RangeFrame, PdrEnv, collection>>

\* a solver that tries once more than max_attempts
SolveAttemptOnceMore ==
    /\ ppc = "solve"
    /\ attempt <= max_attempts
    /\ attempt' = attempt + 1
    /\ \E text \in BOOLEAN :
        /\ ~browser_open => ~text
        /\ ppc' = IF text THEN "enter" ELSE "solve"
    /\ UNCHANGED <<RangeFrame, RunLocals, PdrHist, PdrEnv, collection, nav_attempt,
                   judgments>>

\* CaptchaSolver.solve_captcha, one pass of for attempt in range(max_attempts):
\* the pass yields a text, or none (an exception in the pass included)
SolveAttempt ==
    /\ ppc = "solve"
    /\ attempt < max_attempts
    /\ attempt' = attempt + 1
    /\ \E text \in BOOLEAN :
        /\ ~browser_open => ~text
        /\ ppc' = IF text THEN "enter" ELSE "solve"
    /\ UNCHANGED <<RangeFrame, RunLocals, PdrHist, PdrEnv, collection, nav_attempt,
                   judgments>>

\* the for loop is exhausted: solve_captcha returns None,
\* solve_and_submit_captcha and process_date_range return False
SolveExhausted ==
    /\ ppc = "solve"
    /\ attempt >= max_attempts
    /\ Return("false", ppc, tried, save_outcomes)
    /\ UNCHANGED <<RangeFrame, PdrEnv, collection>>

\* CaptchaSolver.enter_captcha_text
EnterText ==
    /\ ppc = "enter"
    /\ \E outcome \in BOOLEAN :
        /\ ~browser_open => ~outcome
        /\ IF outcome
           THEN /\ ppc' = "submit"
                /\ UNCHANGED <<RunLocals, PdrHist, nav_attempt, attempt, judgments>>
           ELSE Return("false", ppc, tried, save_outcomes)
    /\ UNCHANGED <<RangeFrame, PdrEnv, collection>>

\* the click on Search and the checks of the page that follows
Submit ==
    /\ ppc = "submit"
    /\ \E outcome \in BOOLEAN :
        /\ ~browser_open => ~outcome
        /\ IF outcome
           THEN /\ ppc' = "extract"
                /\ UNCHANGED <<RunLocals, PdrHist, nav_attempt, attempt, judgments>>
           ELSE Return("false", ppc, tried, save_outcomes)
    /\ UNCHANGED <<RangeFrame, PdrEnv, collection>>

\* a handler that does not look at the status
handle_response_any_status(responses, response) ==
    IF response.url_keyword /\ response.textual /\ response.body = "read"
    THEN Append(responses, response)
    ELSE responses

\* _handle_response: the entry is appended when the status is 200, the URL
\* holds a keyword, the content-type is textual and response.body() gave a
\* non-empty body; a body read that raises is passed over
handle_response(responses, response) ==
    IF /\ response.status = 200
       /\ response.url_keyword
       /\ response.textual
       /\ response.body = "read"
    THEN Append(responses, response)
    ELSE responses

\* the page's response event while the page loads: a response the handler
\* takes, or one that fails one of its tests
Capture ==
    /\ ppc \in {"navigate", "submit"}
    /\ browser_open
    /\ \E kind \in ResponseKinds, records \in Bodies,
          fails \in {"none", "status", "url", "content_type", "empty", "raise"} :
        LET response ==
                [during |-> i + 1, kind |-> kind, records |-> records,
                 status |-> IF fails = "status" THEN 404 ELSE 200,
                 url_keyword |-> fails # "url",
                 textual |-> fails # "content_type",
                 body |-> IF fails \in {"empty", "raise"} THEN fails ELSE "read"]
        IN  /\ fails # "none" => (kind = "other" /\ records = <<>>)
            /\ Len(handle_response(captured_responses, response)) <= MaxCaptured
            /\ captured_responses' = handle_response(captured_responses, response)
            /\ unread' = (unread \/ fails = "raise")
    /\ UNCHANGED <<RangeFrame, RunLocals, PdrHist, collection, ppc, nav_attempt,
                   attempt, api_endpoints, judgments, parsed, browser_open,
                   store_open, interrupted>>

\* _handle_request records an endpoint
Request ==
    /\ ppc \in {"navigate", "submit"}
    /\ browser_open
    /\ ~api_endpoints
    /\ api_endpoints' = TRUE
    /\ UNCHANGED <<RangeFrame, RunLocals, PdrHist, collection, ppc, nav_attempt,
                   attempt, captured_responses, unread, judgments, parsed,
                   browser_open, store_open, interrupted>>

\* judgments = self._extract_from_network_responses()
Extract ==
    /\ ppc = "extract"
    /\ \E db_ok \in BOOLEAN :
        collection' = ExtractSaves(collection, captured_responses, db_ok)
    /\ judgments' = ExtractRecords(captured_responses)
    /\ parsed' = parsed \cup
          {<<i + 1, r.during>> : r \in SeqRange(Handled(captured_responses))}
    /\ ppc' = IF ExtractRecords(captured_responses) # <<>> THEN "save"
              ELSE "page"
    /\ tried' = Append(tried,
          [source |-> "responses",
           found |-> Len(ExtractRecords(captured_responses))])
    /\ UNCHANGED <<RangeFrame, RunLocals, collection_at_call, pdr_exit,
                   save_outcomes,
                   nav_attempt, attempt,
                   captured_responses, unread, api_endpoints, browser_open,
                   store_open, interrupted>>

\* judgments = self.extract_judgment_links(): the captured responses once
\* more (they gave nothing), then the table of the live page
PageFallback ==
    /\ ppc = "page"
    /\ \E found \in Bodies :
        /\ ~browser_open => found = <<>>
        /\ judgments' = found
        /\ ppc' = IF found # <<>> THEN "save" ELSE "api"
        /\ tried' = Append(tried, [source |-> "page", found |-> Len(found)])
    /\ UNCHANGED <<RangeFrame, RunLocals, collection_at_call, pdr_exit,
                   save_outcomes, PdrEnv,
                   collection, nav_attempt, attempt>>

\* a replay that asks every parameter set
call_api_endpoint_every_set(answers) == answers

\* _call_api_endpoint, for param_set in [date_params, {}]: the answers
\* received, a request being made until one answer holds records
RECURSIVE call_api_endpoint(_)
call_api_endpoint(answers) ==
    IF answers = <<>> THEN <<>>
    ELSE IF Head(answers) # <<>> THEN <<Head(answers)>>
    ELSE <<Head(answers)>> \o call_api_endpoint(Tail(answers))

\* judgments = self.try_direct_api_calls(date_range), for the endpoint
\* recorded; with nothing found process_date_range returns True
ApiFallback ==
    /\ ppc = "api"
    /\ \E answers \in [1..2 -> Bodies] :
        LET param_sets == <<"date_params", "no_params">>
            received == IF api_endpoints THEN call_api_endpoint(answers)
                        ELSE <<>>
            found == Join(received, <<>>)
            sources == tried \o [k \in 1..Len(received) |->
                          [source |-> param_sets[k], found |-> Len(received[k])]]
        IN  IF found = <<>>
            THEN Return("empty", ppc, sources, save_outcomes)
            ELSE /\ judgments' = found
                 /\ ppc' = "save"
                 /\ tried' = sources
                 /\ UNCHANGED <<RunLocals, collection_at_call, pdr_exit,
                                save_outcomes, nav_attempt, attempt>>
    /\ UNCHANGED <<RangeFrame, PdrEnv, collection>>

\* self._save_judgments_to_mongodb(judgments); process_date_range returns
\* True whatever the call returned
SaveJudgments ==
    /\ ppc = "save"
    /\ \E oks \in [1..Len(judgments) -> BOOLEAN] :
        LET saved == SaveBatch(collection, judgments, oks)
        IN  /\ collection' = saved.coll
            /\ Return("true", ppc, tried, saved.outcomes)
    /\ UNCHANGED <<RangeFrame, PdrEnv>>

\* the process ends: finally: cleanup_browser(), mongo_client.close()
ExitProcess ==
    /\ EndOfProcess
    /\ PdrDone
    /\ browser_open' = FALSE
    /\ store_open' = FALSE
    /\ UNCHANGED PdrHist

\* after the loop: the final save_progress, then the process ends
RangeFinish ==
    /\ rpc = "loop"
    /\ ppc = "idle"
    /\ i = Len(remaining_ranges)
    /\ progress_file' = save_progress(completed_ranges, failed_ranges)
    /\ ExitProcess
    /\ UNCHANGED <<RangeFrame, collection, runs, done_ok, captured_responses, unread,
                   api_endpoints, parsed, interrupted>>

\* the places of process_date_range where a bare except: encloses the
\* running code: refresh_captcha between two attempts, the selector loop
\* of enter_captcha_text, and response.json() in _call_api_endpoint
InBareExcept ==
    \/ ppc = "solve" /\ 0 < attempt /\ attempt < max_attempts
    \/ ppc = "enter"
    \/ ppc = "api" /\ api_endpoints

\* SIGINT or SIGTERM while a range is processed: _signal_handler closes the
\* browser and the store and calls sys.exit(0); the SystemExit is raised
\* where the main thread is, and a bare except: there catches it
Signal ==
    /\ rpc = "loop"
    /\ ppc # "idle"
    /\ interrupted = 0
    /\ interrupted' = i + 1
    /\ \E swallowed \in BOOLEAN :
        /\ swallowed => InBareExcept
        /\ IF swallowed
           THEN /\ browser_open' = FALSE
                /\ store_open' = FALSE
                /\ UNCHANGED <<RunLocals, PdrHist, ppc, nav_attempt, attempt, judgments>>
           ELSE /\ ExitProcess
                /\ UNCHANGED <<progress_file, runs, done_ok>>
    /\ UNCHANGED <<RangeFrame, collection, captured_responses, unread, api_endpoints,
                   parsed>>

NextRange ==
    \/ RangeStart \/ PdrCall \/ Navigate \/ Fill \/ SolveAttempt
    \/ SolveExhausted \/ EnterText \/ Submit \/ Capture \/ Request
    \/ Extract \/ PageFallback \/ ApiFallback \/ SaveJudgments
    \/ RangeFinish \/ Signal

SpecRange == InitRange /\ [][NextRange]_vars

(***************************************************************************)
(* Specification SpecParse: the table parser and the JSON parser on the    *)
(* document BeautifulSoup builds from an HTML fragment.  soup is the first *)
(* table of the fragment: whether there is one, whether it has a tbody,    *)
(* and its tr elements; a row is the sequence of its td cells; a cell has  *)
(* a text node and a sequence of a elements.                               *)
(***************************************************************************)
Anchor(href, onclick) == [href |-> href, onclick |-> onclick, text |-> <<"P">>]

Cell(text, links) == [text |-> text, links |-> links]

PlaceholderHref == <<"https://api.sci.gov.in/">>

HrefA == <<"a", ".pdf">>
HrefB == <<"b", ".PDF">>
HrefC == <<"c", ".pdf">>

\* str.lower()
lower(s) == [k \in 1..Len(s) |-> IF s[k] = ".PDF" THEN ".pdf" ELSE s[k]]

\* '.pdf' in href.lower() or 'download' in href.lower() or 'judgment' in
\* href.lower()
IsDocument(href) ==
    \E k \in 1..Len(href) : lower(href)[k] \in {".pdf", "download", "judgment"}

\* onclick and ('pdf' in onclick.lower() or 'download' in onclick.lower())
OnclickMentions(onclick) ==
    \E k \in 1..Len(onclick) : lower(onclick)[k] \in {".pdf", "download"}

\* re.search(...) on the onclick text: the first quoted piece, when it
\* holds .pdf; <<>> when nothing matches
OnclickUrl(onclick) ==
    LET quotes == {k \in 1..Len(onclick) : onclick[k] = "'"}
        first == CHOOSE k \in quotes : \A q \in quotes : k <= q
        rest == {k \in quotes : k > first}
        second == CHOOSE k \in rest : \A q \in rest : k <= q
        piece == SubSeq(onclick, first + 1, second - 1)
    IN  IF quotes = {} \/ rest = {} THEN <<>>
        ELSE IF \E k \in 1..Len(piece) : piece[k] = ".pdf" THEN piece
        ELSE <<>>

\* cell.get_text(strip=True): the text nodes of the cell and of its a
\* elements, each stripped, the empty ones dropped, concatenated
CellText(cell) ==
    LET nodes == <<cell.text>> \o [k \in 1..Len(cell.links) |-> cell.links[k].text]
        stripped == [k \in 1..Len(nodes) |-> Strip(nodes[k])]
    IN  Join(SelectSeq(stripped, LAMBDA n : n # <<>>), <<>>)

IsDigit(c) == c \in {"0", "1", "2", "3", "4", "5", "6", "7", "8", "9"}

\* the pattern \d{2}-\d{2}-\d{4} matches at position p
DateAt(s, p) ==
    /\ p + 9 <= Len(s)
    /\ \A k \in 0..9 : IF k \in {2, 5} THEN s[p + k] = "-" ELSE IsDigit(s[p + k])

\* re.search(r'(\d{2}-\d{2}-\d{4})', judgment_text), else the first line
ExtractDate(judgment_text) ==
    LET hits == {p \in 1..Len(judgment_text) : DateAt(judgment_text, p)}
        p0 == CHOOSE p \in hits : \A q \in hits : p <= q
        breaks == {p \in 1..Len(judgment_text) : judgment_text[p] = "\n"}
        b0 == CHOOSE p \in breaks : \A q \in breaks : p <= q
    IN  IF hits # {} THEN SubSeq(judgment_text, p0, p0 + 9)
        ELSE IF breaks = {} THEN Strip(judgment_text)
        ELSE Strip(SubSeq(judgment_text, 1, b0 - 1))

\* a loop over the a elements that keeps the first link only
RECURSIVE CollectLinksSingle(_, _)
CollectLinksSingle(links, acc) ==
    IF links = <<>> THEN acc
    ELSE LET link == Head(links)
             href == Strip(link.href)
             url == IF href = <<>> \/ href = PlaceholderHref THEN <<>>
                    ELSE IF IsDocument(href) THEN href
                    ELSE IF OnclickMentions(link.onclick)
                         THEN OnclickUrl(link.onclick)
                    ELSE <<>>
         IN  CollectLinksSingle(Tail(links),
                 IF url = <<>> \/ acc # <<>> THEN acc ELSE Append(acc, url))

\* the loop over the a elements of the judgment cell: empty and
\* placeholder hrefs are skipped, a document href is appended, else the
\* URL found in a matching onclick is appended
RECURSIVE CollectLinks(_, _)
CollectLinks(links, acc) ==
    IF links = <<>> THEN acc
    ELSE LET link == Head(links)
             href == Strip(link.href)
             url == IF href = <<>> \/ href = PlaceholderHref THEN <<>>
                    ELSE IF IsDocument(href) THEN href
                    ELSE IF OnclickMentions(link.onclick)
                         THEN OnclickUrl(link.onclick)
                    ELSE <<>>
         IN  CollectLinks(Tail(links),
                          IF url = <<>> THEN acc ELSE Append(acc, url))

\* the fallback over every a element of every cell: the first document
\* href (not stripped), or the first URL of a matching onclick
RECURSIVE FirstLink(_)
FirstLink(links) ==
    IF links = <<>> THEN <<>>
    ELSE LET link == Head(links)
         IN  IF link.href # <<>> /\ IsDocument(link.href) THEN link.href
             ELSE IF OnclickMentions(link.onclick)
                     /\ OnclickUrl(link.onclick) # <<>>
                  THEN OnclickUrl(link.onclick)
             ELSE FirstLink(Tail(links))

RECURSIVE AllLinks(_)
AllLinks(cells) ==
    IF cells = <<>> THEN <<>> ELSE Head(cells).links \o AllLinks(Tail(cells))

\* the column each positional key is read from
KeyCell ==
    [serial_number |-> 1, serial_no |-> 1, diary_number |-> 2, diary_no |-> 2,
     case_number |-> 3, petitioner_respondent |-> 4, title |-> 4,
     advocate |-> 5, bench |-> 6, judgment_by |-> 7, judge |-> 7]

\* _extract_judgment_from_cells: the mapping, or None
extract_judgment_from_cells(cells) ==
    LET positional ==
            [key \in {k \in DOMAIN KeyCell : KeyCell[k] <= Len(cells)} |->
                Str(CellText(cells[KeyCell[key]]))]
        pdf_links == IF Len(cells) >= 8 THEN CollectLinks(cells[8].links, <<>>)
                     ELSE <<>>
        dated == IF Len(cells) >= 8
                 THEN [judgment_date |-> Str(ExtractDate(CellText(cells[8])))]
                      @@ positional
                 ELSE positional
        linked == IF pdf_links # <<>>
                  THEN [pdf_links |-> List(pdf_links),
                        judgment_links |-> List(pdf_links),
                        pdf_link |-> Str(pdf_links[1]),
                        file_url |-> Str(pdf_links[1])] @@ dated
                  ELSE dated
        pdf_link == FirstLink(AllLinks(cells))
        judgment == IF pdf_links = <<>> /\ pdf_link # <<>>
                    THEN [pdf_link |-> Str(pdf_link), file_url |-> Str(pdf_link)]
                         @@ linked
                    ELSE linked
    IN  IF Truthy(Get(judgment, "case_number", NoneVal))
           \/ Truthy(Get(judgment, "pdf_link", NoneVal))
        THEN judgment
        ELSE NoneVal

\* rows = tbody.find_all('tr'), or all_rows[1:] if len(all_rows) > 1 else
\* all_rows
DataRows(doc) ==
    IF doc.tbody \/ Len(doc.rows) <= 1 THEN doc.rows ELSE Tail(doc.rows)

\* a loop over the rows without the test on the number of cells
ParseRowsAnyWidth(rows) ==
    SelectSeq([k \in 1..Len(rows) |-> extract_judgment_from_cells(rows[k])],
              LAMBDA judgment : judgment # NoneVal)

RECURSIVE ParseRows(_)
ParseRows(rows) ==
    IF rows = <<>> THEN <<>>
    ELSE LET cells == Head(rows)
             judgment == IF Len(cells) >= 3
                         THEN extract_judgment_from_cells(cells)
                         ELSE NoneVal
         IN  (IF judgment = NoneVal THEN <<>> ELSE <<judgment>>)
             \o ParseRows(Tail(rows))

\* _parse_table_from_soup
parse_table_from_soup(doc) ==
    IF ~doc.table THEN <<>> ELSE ParseRows(DataRows(doc))

\* the loop of extract_judgment_links over the rows: a row with fewer than
\* 7 cells is skipped; every a element of the judgment cell whose href
\* holds .pdf or api.sci.gov.in (no href of the inputs holds supremecourt),
\* is not the placeholder and has a text gives one record
RECURSIVE PageRows(_)
PageRows(rows) ==
    IF rows = <<>> THEN <<>>
    ELSE LET cells == Head(rows)
             judgment_by == IF Len(cells) >= 8 THEN CellText(cells[7])
                            ELSE CellText(cells[6])
             judgment_cell == IF Len(cells) >= 8 THEN cells[8] ELSE cells[7]
             pdf_links ==
                 SelectSeq(judgment_cell.links, LAMBDA link :
                     /\ Strip(link.href) # <<>>
                     /\ \E k \in 1..Len(link.href) :
                           \/ lower(link.href)[k] = ".pdf"
                           \/ link.href[k] = PlaceholderHref[1]
                     /\ Strip(link.href) # PlaceholderHref
                     /\ Strip(link.text) # <<>>)
             judgment_date(link_text) ==
                 LET hits == {p \in 1..Len(link_text) : DateAt(link_text, p)}
                     p0 == CHOOSE p \in hits : \A q \in hits : p <= q
                 IN  IF hits = {} THEN <<>> ELSE SubSeq(link_text, p0, p0 + 9)
             judgment_data(link) ==
                 [serial_no |-> Str(CellText(cells[1])),
                  diary_no |-> Str(CellText(cells[2])),
                  case_number |-> Str(CellText(cells[3])),
                  title |-> Str(CellText(cells[4])),
                  advocate |-> Str(CellText(cells[5])),
                  bench |-> Str(CellText(cells[6])),
                  judge |-> Str(judgment_by),
                  judgment_date |-> Str(judgment_date(Strip(link.text))),
                  file_url |-> Str(Strip(link.href)),
                  link_text |-> Str(Strip(link.text))]
         IN  (IF Len(cells) < 7 THEN <<>>
              ELSE [k \in 1..Len(pdf_links) |-> judgment_data(pdf_links[k])])
             \o PageRows(Tail(rows))

\* extract_judgment_links on the page content: the rows of the first
\* table, then the records whose file_url was seen before are dropped
extract_judgment_links(doc) ==
    LET found == IF ~doc.table THEN <<>> ELSE PageRows(DataRows(doc))
        unique == SelectSeq([k \in 1..Len(found) |-> k], LAMBDA k :
                      \A j \in 1..(k - 1) : found[j].file_url # found[k].file_url)
    IN  [n \in 1..Len(unique) |-> found[unique[n]]]

\* a JSON object
Dict(f) == [type |-> "dict", val |-> f]

KeyMappings ==
    [serial_no |-> <<"serial", "sno", "id", "index">>,
     diary_no |-> <<"diary", "diary_no", "diary_number">>,
     case_number |-> <<"case", "case_no", "case_number", "caseNumber">>,
     petitioner_respondent |-> <<"parties", "petitioner", "respondent", "case_title">>,
     advocate |-> <<"advocate", "lawyer", "counsel">>,
     judgment_date |-> <<"date", "judgment_date", "judgmentDate", "decided_on">>,
     pdf_link |-> <<"link", "url", "pdf", "download", "file_url">>]

\* the possible keys that are in the item with a true value, in order
PresentKeys(item, possible_keys) ==
    SelectSeq(possible_keys,
              LAMBDA key : key \in DOMAIN item /\ Truthy(item[key]))

\* _extract_judgment_from_json_item: the mapping, or None
extract_judgment_from_json_item(item) ==
    LET fields == {f \in DOMAIN KeyMappings :
                      PresentKeys(item, KeyMappings[f]) # <<>>}
        judgment == [f \in fields |->
                        Str(Strip(item[PresentKeys(item, KeyMappings[f])[1]].val))]
    IN  IF Truthy(Get(judgment, "case_number", NoneVal))
           \/ Truthy(Get(judgment, "pdf_link", NoneVal))
        THEN judgment
        ELSE NoneVal

\* for item in items: if isinstance(item, dict): ... if judgment: append
RECURSIVE ParseItems(_)
ParseItems(items) ==
    IF items = <<>> THEN <<>>
    ELSE LET item == Head(items)
             judgment == IF item.type = "dict"
                         THEN extract_judgment_from_json_item(item.val)
                         ELSE NoneVal
         IN  (IF judgment = NoneVal THEN <<>> ELSE <<judgment>>)
             \o ParseItems(Tail(items))

\* for key in ['data', 'results', 'judgments', 'records', 'items']
RECURSIVE ParseKeys(_, _)
ParseKeys(obj, keys) ==
    IF keys = <<>> THEN <<>>
    ELSE (IF Head(keys) \in DOMAIN obj /\ obj[Head(keys)].type = "list"
          THEN ParseItems(obj[Head(keys)].val) ELSE <<>>)
         \o ParseKeys(obj, Tail(keys))

\* a JSON parser without the data.resultsHtml branch
parse_json_for_judgments_keys_only(json_data) ==
    IF json_data.type = "dict"
    THEN ParseKeys(json_data.val,
                   <<"data", "results", "judgments", "records", "items">>)
    ELSE IF json_data.type = "list" THEN ParseItems(json_data.val)
    ELSE <<>>

\* _parse_json_for_judgments; a resultsHtml string is held as the document
\* BeautifulSoup(html_content, 'html.parser') builds from it
parse_json_for_judgments(json_data) ==
    IF json_data.type = "dict"
    THEN LET obj == json_data.val
             table_judgments ==
                 IF /\ "data" \in DOMAIN obj
                    /\ obj["data"].type = "dict"
                    /\ "resultsHtml" \in DOMAIN obj["data"].val
                 THEN parse_table_from_soup(obj["data"].val["resultsHtml"].val)
                 ELSE <<>>
         IN  IF table_judgments # <<>> THEN table_judgments
             ELSE ParseKeys(obj, <<"data", "results", "judgments", "records",
                                   "items">>)
    ELSE IF json_data.type = "list" THEN ParseItems(json_data.val)
    ELSE <<>>

\* the inputs
DateFull == <<"0", "5", "-", "0", "1", "-", "2", "0", "2", "4">>

OnclickOpen == <<"open(", "'", "c", ".pdf", "'", ")">>

TextCell(text) == Cell(text, <<>>)

HeaderRow == <<>>

ShortRow == <<TextCell(Diary1), Cell(<<>>, <<Anchor(HrefA, <<>>)>>)>>

Row3 == <<TextCell(<<"1">>), TextCell(Diary1), TextCell(Case1)>>

Row3Empty == <<TextCell(<<"1">>), TextCell(Diary1), TextCell(<<" ">>)>>

Row3Link == <<TextCell(<<"1">>), TextCell(Diary1), Cell(<<>>, <<Anchor(HrefB, <<>>)>>)>>

\* the row of test_api_response_parsing: six cells, a date cell and a link
Row6 ==
    <<TextCell(<<"1">>), TextCell(Diary1), TextCell(<<"t">>), TextCell(<<"j">>),
      TextCell(DateFull), Cell(<<>>, <<Anchor(HrefA, <<>>)>>)>>

Row7 == Row3 \o <<TextCell(<<"t">>), TextCell(<<>>), TextCell(<<"b">>), TextCell(<<"j">>)>>

Row8(diary_number, case_number, links) ==
    <<TextCell(<<"1">>), TextCell(diary_number), TextCell(case_number),
      TextCell(<<"t">>), TextCell(<<>>), TextCell(<<"b">>), TextCell(<<"j">>),
      Cell(<<" ">> \o DateFull \o <<" ">>, links)>>

RowSet ==
    {HeaderRow, ShortRow, Row3, Row3Empty, Row3Link, Row6, Row7,
     Row8(Diary2, Case1, <<Anchor(HrefA, <<>>)>>)}

AnchorSet ==
    {Anchor(HrefA, <<>>), Anchor(HrefB, <<>>), Anchor(PlaceholderHref, <<>>),
     Anchor(<<>>, <<>>), Anchor(<<"#">>, OnclickOpen)}

SeqsUpTo(S, n) == UNION {[1..k -> S] : k \in 0..n}

AnchorRows ==
    {Row8(Diary1, case_number, links) :
        case_number \in {Case1, <<>>}, links \in SeqsUpTo(AnchorSet, MaxAnchors)}

Fragments ==
    {NoSoup}
    \cup {[table |-> TRUE, tbody |-> tbody, rows |-> rows] :
             tbody \in BOOLEAN, rows \in SeqsUpTo(RowSet, MaxRows)}
    \cup {[table |-> TRUE, tbody |-> TRUE, rows |-> <<row>>] : row \in AnchorRows}

Item1 == Dict([case_no |-> Str(<<" ">> \o Case1), url |-> Str(HrefA)])

Item2 == Dict([id |-> Str(<<"7">>), case_no |-> Str(<<>>)])

JsonSources == {"envelope", "envelope_and_results", "list"}

\* json.loads(body) for the three bodies
JsonInput(source, doc) ==
    CASE source = "envelope" ->
            Dict([data |-> Dict([resultsHtml |-> Str(doc)])])
      [] source = "envelope_and_results" ->
            Dict([data |-> Dict([resultsHtml |-> Str(doc)]),
                  results |-> List(<<Item1, Item2>>)])
      [] source = "list" -> List(<<Item2, Item1>>)

InitParse ==
    /\ start_year = MinYear
    /\ end_year = MinYear + 1
    /\ max_days = RunDaysFew
    /\ GenIdle
    /\ RunIdle
    /\ SaveIdle
    /\ PdrIdle
    /\ soup \in Fragments
    /\ table_result = NotParsed
    /\ json_result = NotParsed
    /\ page_result = NotParsed

ParseFrame == <<config, genVars, runVars, pdrVars, soup, spc, todo,
                duplicate_count, log>>

\* extracted = self._parse_table_from_soup(soup)
ParseTable ==
    /\ ~table_result.done
    /\ table_result' = [done |-> TRUE, source |-> "table",
                        records |-> parse_table_from_soup(soup)]
    /\ UNCHANGED <<ParseFrame, json_result, page_result, collection,
                   saved_count, save_result>>

\* extracted = self._parse_json_for_judgments(json_data)
ParseJson ==
    /\ ~json_result.done
    /\ \E source \in JsonSources :
        json_result' = [done |-> TRUE, source |-> source,
                        records |-> parse_json_for_judgments(
                                        JsonInput(source, soup))]
    /\ UNCHANGED <<ParseFrame, table_result, page_result, collection,
                   saved_count, save_result>>

\* self._save_judgments_to_mongodb(extracted) on an empty collection
SaveParsed ==
    /\ table_result.done
    /\ table_result.records # <<>>
    /\ save_result = "none"
    /\ \E db_ok \in BOOLEAN :
        /\ collection' = SaveBatch(collection, table_result.records,
                              [k \in 1..Len(table_result.records) |-> db_ok]).coll
        /\ saved_count' = Len(collection')
        /\ save_result' = IF Len(collection') > 0 THEN "true" ELSE "false"
    /\ UNCHANGED <<ParseFrame, table_result, json_result, page_result>>

\* judgments = self.extract_judgment_links() with no captured response:
\* soup is BeautifulSoup(self.page.content(), 'html.parser')
ParsePage ==
    /\ ~page_result.done
    /\ page_result' = [done |-> TRUE, source |-> "page",
                       records |-> extract_judgment_links(soup)]
    /\ UNCHANGED <<ParseFrame, table_result, json_result, collection,
                   saved_count, save_result>>

NextParse == ParseTable \/ ParseJson \/ SaveParsed \/ ParsePage

SpecParse == InitParse /\ [][NextParse]_vars

(***************************************************************************)
(* C1: for start_year < end_year and max_days >= 1 the chunks are          *)
(* ascending, the first starts on 1 Jan of start_year, the last ends on    *)
(* 31 Dec of end_year, each chunk starts the day after the previous one    *)
(* ends, each covers at most max_days days, and every day of the span      *)
(* lies in exactly one chunk.                                              *)
(***************************************************************************)
DaysOf(r) == r.end_date - r.start_date + 1

PartitionOK(rs, sy, ey, md) ==
    /\ Len(rs) >= 1
    /\ rs[1].start_date = Jan1(sy)
    /\ rs[Len(rs)].end_date = Dec31(ey)
    /\ \A k \in 1..Len(rs) :
          /\ rs[k].start_date <= rs[k].end_date
          /\ DaysOf(rs[k]) <= md
    /\ \A k \in 2..Len(rs) : rs[k].start_date = rs[k-1].end_date + 1
    /\ \A d \in Jan1(sy)..Dec31(ey) :
          Cardinality({k \in 1..Len(rs) :
             rs[k].start_date <= d /\ d <= rs[k].end_date}) = 1

C1_Partition ==
    gpc = "done" => PartitionOK(all_ranges, start_year, end_year, max_days)

C1_Witness ==
    /\ gpc = "done"
    /\ max_days > 1
    /\ Len(all_ranges) > 2
    /\ DaysOf(all_ranges[Len(all_ranges)]) < max_days

(***************************************************************************)
(* What the progress file records, as load_progress reads it               *)
(***************************************************************************)
FileCompleted == SeqRange(load_progress(progress_file).completed)

FileFailed == load_progress(progress_file).failed

Partition == get_all_date_ranges(start_year, end_year, max_days)

(***************************************************************************)
(* C2: a range that the progress file records as completed stays recorded  *)
(* as completed: no save_progress call that a run makes removes a          *)
(* completed range from the file.                                          *)
(***************************************************************************)
C2_CompletedStays ==
    [][progress_file'.kind = "ok" =>
          \A r \in FileCompleted :
              r \in SeqRange(load_progress(progress_file').completed)]_vars

(***************************************************************************)
(* C3: with N completed ranges among the M chunks of the partition,        *)
(* get_remaining_ranges returns the M - N chunks that are not completed,   *)
(* in partition order, followed by the failed ranges of the file.          *)
(***************************************************************************)
RemainingOK(rem, all, completed, failed) ==
    LET M == Len(all)
        N == Cardinality(completed \cap SeqRange(all))
    IN  /\ Len(rem) = (M - N) + Len(failed)
        /\ \A k \in 1..(M - N) :
              /\ rem[k] \in SeqRange(all)
              /\ rem[k] \notin completed
        /\ \A k \in 2..(M - N) : rem[k-1].start_date < rem[k].start_date
        /\ \A r \in SeqRange(all) :
              r \notin completed => \E k \in 1..(M - N) : rem[k] = r
        /\ \A k \in 1..Len(failed) : rem[(M - N) + k] = failed[k]

C3_Remaining ==
    calls > 0 => RemainingOK(last_remaining, Partition, FileCompleted, FileFailed)

C3_Witness ==
    /\ calls > 0
    /\ FileCompleted # {}
    /\ Cardinality(FileCompleted) < Len(Partition)
    /\ Len(FileFailed) > 0
    /\ Len(last_remaining) > Len(FileFailed)

C5_LossBounded ==
    Cardinality(done_ok \ FileCompleted) <= CheckpointInterval

(***************************************************************************)
(* C6: with the progress file absent or unreadable, load_progress returns  *)
(* two empty lists without raising and get_remaining_ranges returns the    *)
(* whole partition.                                                        *)
(***************************************************************************)
C6_FailsClosed ==
    progress_file.kind \in {"absent", "corrupt"} =>
        /\ ~load_progress(progress_file).raised
        /\ load_progress(progress_file).completed = <<>>
        /\ load_progress(progress_file).failed = <<>>
        /\ calls > 0 => last_remaining = Partition
        /\ (rpc = "loop" /\ calls > 0) => remaining_ranges = Partition

C6_Witness ==
    /\ progress_file.kind = "corrupt"
    /\ runs >= 2
    /\ rpc = "loop"
    /\ calls > 0
    /\ remaining_ranges = Partition

(***************************************************************************)
(* The identity of a handled judgment, and relations between raw judgments *)
(***************************************************************************)
ContentKey(doc) == <<doc.diary_no, doc.case_number, doc.judgment_date>>

CleanedKey(judgment) ==
    LET cleaned == CleanJudgment(judgment)
    IN  <<DiaryNo(cleaned), CaseNumber(cleaned), JudgmentDate(cleaned)>>

IdentityKeys == {"diary_number", "diary_no", "case_number", "judgment_date"}

\* a raw value without the tags and blanks before and after it
RECURSIVE Core(_)
Core(w) ==
    IF w # <<>> /\ (IsTag(Head(w)) \/ IsSpace(Head(w))) THEN Core(Tail(w))
    ELSE IF w # <<>> /\ (IsTag(w[Len(w)]) \/ IsSpace(w[Len(w)]))
         THEN Core(SubSeq(w, 1, Len(w) - 1))
         ELSE w

\* the same identity values, wrapped in markup and whitespace or not
SameWrapped(j1, j2) ==
    /\ DOMAIN j1 = DOMAIN j2
    /\ \A key \in IdentityKeys \cap DOMAIN j1 :
          /\ Core(j1[key].val) = Core(j2[key].val)
          /\ \A k \in 1..Len(Core(j1[key].val)) : ~IsTag(Core(j1[key].val)[k])

Lower(t) == IF t = "C" THEN "c" ELSE t

\* the same identity values up to letter case
SameButCase(j1, j2) ==
    /\ DOMAIN j1 = DOMAIN j2
    /\ \A key \in IdentityKeys \cap DOMAIN j1 :
          MapSeq(Lower, j1[key].val) = MapSeq(Lower, j2[key].val)

\* no judgment date, or neither a diary number nor a case number
Incomplete(judgment) ==
    LET key == CleanedKey(judgment)
    IN  key[3] = <<>> \/ (key[1] = <<>> /\ key[2] = <<>>)

SavedEntries == {k \in 1..Len(log) : log[k].outcome = "saved"}

C8_IncompleteRejected ==
    \A k \in 1..Len(log) :
        Incomplete(log[k].judgment) => log[k].outcome \notin {"saved", "failed"}

(***************************************************************************)
(* C9: two judgments whose diary number, case number and judgment date     *)
(* are the same values in different markup and whitespace get the same     *)
(* judgment_id, and the second is rejected as a duplicate of the first     *)
(* when the first was saved and the content lookup answers.                *)
(***************************************************************************)
C9_MarkupStable ==
    \A a, b \in 1..Len(log) :
        (a < b /\ SameWrapped(log[a].judgment, log[b].judgment)) =>
            /\ log[a].judgment_id = log[b].judgment_id
            /\ (log[a].outcome = "saved" /\ log[b].find_ok) =>
                  log[b].outcome = "duplicate_content"

C9_Witness ==
    /\ Len(log) >= 2
    /\ SameWrapped(log[1].judgment, log[2].judgment)
    /\ log[1].judgment # log[2].judgment
    /\ log[1].outcome = "saved"
    /\ log[2].outcome = "duplicate_content"
    /\ log[1].judgment_id = log[2].judgment_id

(***************************************************************************)
(* C10: two judgments whose diary number, case number and judgment date    *)
(* differ in letter case only get the same judgment_id.                    *)
(***************************************************************************)
C10_CaseStable ==
    \A a, b \in 1..Len(log) :
        (a < b /\ SameButCase(log[a].judgment, log[b].judgment)) =>
            log[a].judgment_id = log[b].judgment_id

(***************************************************************************)
(* C11: the responses that the extraction of the k-th range parses were    *)
(* all captured while the k-th range was processed: no response captured   *)
(* during an earlier range is parsed again for a later one.                *)
(***************************************************************************)
C11_NoBleed == \A pr \in parsed : pr[1] = pr[2]

(***************************************************************************)
(* C12: the JSON parser applied to an envelope whose only content is       *)
(* data.resultsHtml = H returns the records the table parser returns for   *)
(* H.                                                                      *)
(***************************************************************************)
C12_EnvelopeAsTable ==
    (table_result.done /\ json_result.done /\ json_result.source = "envelope")
        => json_result.records = table_result.records

C12_Witness ==
    /\ table_result.done
    /\ json_result.done
    /\ json_result.source = "envelope"
    /\ Len(json_result.records) = 2

\* no value twice in the sequence
Distinct(sq) == \A a, b \in 1..Len(sq) : a # b => sq[a] # sq[b]

(***************************************************************************)
(* C13: the pdf_links list built from the judgment cell of a row holds no  *)
(* URL more than once.                                                     *)
(***************************************************************************)
C13_LinksOnce ==
    table_result.done =>
        \A k \in 1..Len(table_result.records) :
            "pdf_links" \in DOMAIN table_result.records[k] =>
                Distinct(table_result.records[k].pdf_links.val)

\* the anchors of the judgment cell of the only row
JudgmentAnchors == soup.rows[1][8].links

Skipped(link) == Strip(link.href) = <<>> \/ Strip(link.href) = PlaceholderHref

\* the hrefs of the anchors that are neither empty nor the placeholder
DocumentHrefs ==
    LET kept == SelectSeq(JudgmentAnchors, LAMBDA link : ~Skipped(link))
    IN  [k \in 1..Len(kept) |-> kept[k].href]

\* one 8-cell row whose judgment cell holds anchors with distinct document
\* hrefs, empty hrefs and placeholder hrefs only
DocumentRow ==
    /\ soup.table
    /\ soup.tbody
    /\ Len(soup.rows) = 1
    /\ Len(soup.rows[1]) = 8
    /\ \A k \in 1..Len(JudgmentAnchors) :
          Skipped(JudgmentAnchors[k]) \/ IsDocument(JudgmentAnchors[k].href)
    /\ Distinct(DocumentHrefs)

\* the record of the row and the stored document carry the texts of cells
\* 2 and 3 and the document hrefs as lists, in document order
RowRecorded ==
    /\ Len(table_result.records) = 1
    /\ LET judgment == table_result.records[1]
       IN  /\ {"diary_number", "case_number", "pdf_links", "judgment_links"}
                 \subseteq DOMAIN judgment
           /\ judgment.diary_number = Str(CellText(soup.rows[1][2]))
           /\ judgment.case_number = Str(CellText(soup.rows[1][3]))
           /\ judgment.pdf_links = List(DocumentHrefs)
           /\ judgment.judgment_links = List(DocumentHrefs)
    /\ \A k \in 1..Len(collection) :
          /\ collection[k].pdf_links = List(DocumentHrefs)
          /\ collection[k].judgment_links = List(DocumentHrefs)

WithoutShortRows(doc) ==
    [table |-> doc.table, tbody |-> TRUE,
     rows |-> SelectSeq(DataRows(doc), LAMBDA row : Len(row) >= 3)]

(***************************************************************************)
(* C15: a table row of fewer than 3 td cells gives no record, also when    *)
(* it holds a document link, and the rows after it are parsed as if it     *)
(* were not there.                                                         *)
(***************************************************************************)
C15_ShortRowsSkipped ==
    table_result.done =>
        /\ table_result.records = parse_table_from_soup(WithoutShortRows(soup))
        /\ Len(table_result.records) <= Len(WithoutShortRows(soup).rows)
        /\ \A k \in 1..Len(table_result.records) :
              "case_number" \in DOMAIN table_result.records[k]

C15_Witness ==
    /\ table_result.done
    /\ soup.tbody
    /\ soup.rows = <<ShortRow, Row3>>
    /\ Len(table_result.records) = 1
    /\ table_result.records[1].case_number = Str(Case1)

(***************************************************************************)
(* C16: of any two ranges processed in the same run, the one processed     *)
(* first has the earlier start date.                                       *)
(***************************************************************************)
C16_Ascending ==
    rpc = "loop" =>
        \A a, b \in 1..i :
            a < b => remaining_ranges[a].start_date < remaining_ranges[b].start_date

(***************************************************************************)
(* C18: when process_date_range returns False or raises for a range, the   *)
(* loop of run() goes on with the next range, the range is in the failed   *)
(* list, and the progress saved at the end of the run lists every range    *)
(* that failed in the run as failed.                                       *)
(***************************************************************************)
C18_FailuresKept ==
    [][ /\ (last_result' \in {"false", "raise"} /\ i' = i + 1) =>
              /\ rpc' = "loop"
              /\ remaining_ranges' = remaining_ranges
              /\ remaining_ranges[i + 1] \in SeqRange(failed_ranges')
        /\ rpc = "loop" => run_failed \subseteq SeqRange(failed_ranges)
        /\ (/\ rpc = "loop"
            /\ rpc' = "idle"
            /\ i = Len(remaining_ranges)
            /\ progress_file' = save_progress(completed_ranges, failed_ranges)) =>
              \A r \in run_failed :
                  to_dict(r) \in SeqRange(progress_file'.failed_ranges)
      ]_vars

\* a finished first run whose first range failed and whose second range
\* was processed after it, both in the saved progress
C18_Witness ==
    /\ rpc = "idle"
    /\ runs = 1
    /\ progress_file.kind = "ok"
    /\ Len(progress_file.failed_ranges) = 1
    /\ Len(progress_file.completed_ranges) = 1
    /\ fromisoformat(progress_file.failed_ranges[1].start_date)
          < fromisoformat(progress_file.completed_ranges[1].start_date)

(***************************************************************************)
(* C19: when process_date_range returns True with no record found, run()   *)
(* records the range as completed and does not add it to the failed list.  *)
(***************************************************************************)
C19_EmptyCompleted ==
    [][ (last_result' = "empty" /\ i' = i + 1) =>
            /\ remaining_ranges[i + 1] \in SeqRange(completed_ranges')
            /\ failed_ranges' = failed_ranges
      ]_vars

(***************************************************************************)
(* C17: once SIGINT or SIGTERM has arrived while a range was processed,    *)
(* the process has exited with the browser and the store closed: run()     *)
(* does not go on past the range that was in flight.                       *)
(***************************************************************************)
C17_InterruptStops ==
    interrupted # 0 =>
        /\ ~browser_open
        /\ ~store_open
        /\ ~(rpc = "loop" /\ i >= interrupted)

(***************************************************************************)
(* C20: solve_captcha makes at most max_attempts attempts; when none       *)
(* yields a text, process_date_range returns False from the CAPTCHA step,  *)
(* nothing was inserted since the call, and run() records the range as     *)
(* failed and not as completed.                                            *)
(***************************************************************************)
C20_CaptchaExhausted ==
    /\ attempt <= max_attempts
    /\ (rpc = "loop" /\ ppc = "idle" /\ pdr_exit = "solve") =>
          /\ last_result = "false"
          /\ collection = collection_at_call
          /\ i >= 1
          /\ remaining_ranges[i] \in SeqRange(failed_ranges)
          /\ remaining_ranges[i] \notin SeqRange(completed_ranges)

\* the second range failed at the CAPTCHA after MaxAttempts attempts, with
\* a record of the first range in the store
C20_Witness ==
    /\ rpc = "loop"
    /\ ppc = "idle"
    /\ pdr_exit = "solve"
    /\ max_attempts = MaxAttempts
    /\ i = 2
    /\ last_result = "false"
    /\ Len(collection) = 1
    /\ remaining_ranges[2] \in SeqRange(failed_ranges)
    /\ remaining_ranges[1] \in SeqRange(completed_ranges)

\* the content lookup of the latest judgment of the log on a collection
LatestLookup(coll, entry) ==
    LET cleaned == CleanJudgment(entry.judgment)
    IN  find_duplicate_by_content(coll, DiaryNo(cleaned), CaseNumber(cleaned),
                                  JudgmentDate(cleaned), entry.find_ok)

(***************************************************************************)
(* C21: insert_judgment is called only for a judgment that passed the      *)
(* content lookup and the id lookup; a judgment rejected as a duplicate    *)
(* leaves the collection as it was, and the collection changes only by     *)
(* the append of the one new document.                                     *)
(***************************************************************************)
C21_RejectionFrame ==
    [][ Len(log') = Len(log) + 1 =>
          LET entry == log'[Len(log')]
          IN  /\ entry.outcome \in {"duplicate_content", "duplicate_id"} =>
                    collection' = collection
              /\ entry.outcome \in {"saved", "failed"} =>
                    ~Truthy(LatestLookup(collection, entry))
              /\ collection' # collection =>
                    /\ entry.outcome = "saved"
                    /\ Len(collection') = Len(collection) + 1
                    /\ SubSeq(collection', 1, Len(collection)) = collection
                    /\ collection'[Len(collection')].judgment_id = entry.judgment_id
                    /\ \A k \in 1..Len(collection) :
                          collection[k].judgment_id # entry.judgment_id
      ]_vars

C21_Witness ==
    /\ Len(log) = 2
    /\ log[1].outcome = "saved"
    /\ log[2].outcome = "duplicate_id"
    /\ Len(collection) = 1

(***************************************************************************)
(* C22: every document inserted during run() carries the bounds of the     *)
(* date range that was searched in search_from_date and search_to_date.    *)
(***************************************************************************)
C22_SearchRange ==
    \A k \in 1..Len(collection) :
        /\ collection[k].search_from_date # NoneVal
        /\ collection[k].search_to_date # NoneVal

\* a row of at least 3 td cells with a dd-mm-yyyy date cell and a document
\* link
DatedLinkedRow(row) ==
    /\ Len(row) >= 3
    /\ \E c \in 1..Len(row) :
          \E p \in 1..Len(CellText(row[c])) : DateAt(CellText(row[c]), p)
    /\ \E c \in 1..Len(row) :
          \E k \in 1..Len(row[c].links) : IsDocument(row[c].links[k].href)

EnvelopeKeys ==
    {"diary_no", "case_number", "petitioner_respondent", "advocate",
     "judgment_date", "pdf_link"}

(***************************************************************************)
(* C23: for an envelope whose table consists of rows of at least 3 cells   *)
(* with a date cell and a document link, the JSON parser returns at least  *)
(* one record and every record has the keys diary_no, case_number,         *)
(* petitioner_respondent, advocate, judgment_date and pdf_link.            *)
(***************************************************************************)
C23_EnvelopeKeys ==
    (/\ json_result.done
     /\ json_result.source = "envelope"
     /\ soup.table
     /\ soup.rows # <<>>
     /\ \A k \in 1..Len(soup.rows) : DatedLinkedRow(soup.rows[k])) =>
        /\ Len(json_result.records) >= 1
        /\ \A k \in 1..Len(json_result.records) :
              EnvelopeKeys \subseteq DOMAIN json_result.records[k]

\* the records of all captured responses together, in capture order
RECURSIVE AllRecords(_)
AllRecords(responses) ==
    IF responses = <<>> THEN <<>>
    ELSE Head(responses).records \o AllRecords(Tail(responses))

(***************************************************************************)
(* C24: _extract_from_network_responses parses every captured response     *)
(* that has a body, whatever its URL and size, and returns the records of  *)
(* all responses together in capture order.                                *)
(***************************************************************************)
C24_EveryResponseParsed ==
    [][ (ppc = "extract" /\ ppc' \in {"save", "page"}) =>
            judgments' = AllRecords(captured_responses) ]_vars

\* a data row of td cells with at least 3 cells and a case number
CaseRow(row) == Len(row) >= 3 /\ Truthy(Str(CellText(row[3])))

(***************************************************************************)
(* C25: for a table without tbody whose rows are all data rows with at     *)
(* least 3 cells and a case number, _parse_table_from_soup returns one     *)
(* record for every row: k rows give k records.                            *)
(***************************************************************************)
C25_RecordPerRow ==
    (/\ table_result.done
     /\ soup.table
     /\ ~soup.tbody
     /\ \A k \in 1..Len(soup.rows) : CaseRow(soup.rows[k])) =>
        Len(table_result.records) = Len(soup.rows)

\* the ordered link list of a record: pdf_links, else the single link
RecordLinks(judgment) ==
    IF "pdf_links" \in DOMAIN judgment THEN judgment.pdf_links.val
    ELSE IF "pdf_link" \in DOMAIN judgment THEN <<judgment.pdf_link.val>>
    ELSE IF "file_url" \in DOMAIN judgment THEN <<judgment.file_url.val>>
    ELSE <<>>

(***************************************************************************)
(* C26: for the same table markup extract_judgment_links returns one       *)
(* record for every row _parse_table_from_soup accepts, and each record    *)
(* has the same diary number, case number and ordered link list as the     *)
(* record of the table parser.                                             *)
(***************************************************************************)
C26_SameRowRules ==
    (page_result.done /\ table_result.done) =>
        /\ Len(page_result.records) = Len(table_result.records)
        /\ \A k \in 1..Len(table_result.records) :
              /\ page_result.records[k].diary_no = table_result.records[k].diary_no
              /\ page_result.records[k].case_number = table_result.records[k].case_number
              /\ RecordLinks(page_result.records[k])
                    = RecordLinks(table_result.records[k])

\* the sources of process_date_range in the order of the code
SourceOrder == <<"responses", "page", "date_params", "no_params">>

(***************************************************************************)
(* C27: process_date_range asks its sources in a fixed order (captured     *)
(* responses, live page, then the parameter sets of the recorded           *)
(* endpoint), each only when every source asked before returned no         *)
(* record; the parameter sets are asked only after the live page; and      *)
(* when every source returned an empty list the call returns True with     *)
(* no judgments instead of failing.                                        *)
(***************************************************************************)
C27_SourcesInOrder ==
    /\ Len(tried) <= Len(SourceOrder)
    /\ \A k \in 1..Len(tried) :
          /\ tried[k].source = SourceOrder[k]
          /\ k < Len(tried) => tried[k].found = 0
    /\ ppc \in {"page", "api"} => judgments = <<>>
    /\ ppc = "save" =>
          judgments # <<>> /\ Len(judgments) = tried[Len(tried)].found
    /\ (rpc = "loop" /\ ppc = "idle" /\ pdr_exit = "api") =>
          /\ last_result = "empty"
          /\ \A k \in 1..Len(tried) : tried[k].found = 0

C27_Witness ==
    /\ ppc = "save"
    /\ Len(tried) = 4
    /\ tried[4].found > 0

(***************************************************************************)
(* C28: every entry of captured_responses comes from a response with       *)
(* status 200, a keyword in its URL, a textual content-type and a body     *)
(* that was read; a body read that raises leaves the list unchanged; and   *)
(* the list only grows at its end, no entry being removed or changed.      *)
(***************************************************************************)
C28_AppendOnly ==
    [][ /\ \A k \in 1..Len(captured_responses') :
              /\ captured_responses'[k].status = 200
              /\ captured_responses'[k].url_keyword
              /\ captured_responses'[k].textual
              /\ captured_responses'[k].body = "read"
        /\ unread' # unread => captured_responses' = captured_responses
        /\ Len(captured_responses') >= Len(captured_responses)
        /\ SubSeq(captured_responses', 1, Len(captured_responses))
              = captured_responses
      ]_vars

C28_Witness ==
    /\ unread
    /\ Len(captured_responses) = 2
    /\ captured_responses[1].during < captured_responses[2].during

\* the number of judgments of a save that ended as saved
SavedIn(outcomes) == Len(SelectSeq(outcomes, LAMBDA o : o = "saved"))

(***************************************************************************)
(* C29: in the save of process_date_range every judgment of the batch is   *)
(* reconciled, also after one whose insert failed; a failed judgment adds  *)
(* nothing to the store; and process_date_range returns True, the range    *)
(* being appended to the completed ranges, whatever happened to the        *)
(* single judgments.                                                       *)
(***************************************************************************)
C29_RecordFailureKept ==
    [][ (ppc = "save" /\ i' = i + 1) =>
            /\ Len(save_outcomes') = Len(judgments)
            /\ Len(collection') = Len(collection) + SavedIn(save_outcomes')
            /\ last_result' = "true"
            /\ completed_ranges' = Append(completed_ranges, remaining_ranges[i + 1])
            /\ failed_ranges' = failed_ranges
      ]_vars

C29_Witness ==
    /\ ppc = "idle"
    /\ save_outcomes = <<"failed", "saved">>
    /\ last_result = "true"
    /\ Len(collection) = 1

(***************************************************************************)
(* C30: from_dict(to_dict(r)) = r for every range the scheduler holds, and *)
(* load_progress on the file a save_progress(completed, failed) has        *)
(* written returns lists equal to completed and failed, in the same order. *)
(***************************************************************************)
C30_RoundTrip ==
    [][ /\ \A r \in SeqRange(remaining_ranges') \cup SeqRange(last_remaining') :
              from_dict(to_dict(r)) = r
        /\ (progress_file' # progress_file /\ progress_file'.kind = "ok") =>
              \E lists \in {<<completed_ranges, failed_ranges>>,
                            <<completed_ranges', failed_ranges'>>} :
                  /\ progress_file' = save_progress(lists[1], lists[2])
                  /\ ~load_progress(progress_file').raised
                  /\ load_progress(progress_file').completed = lists[1]
                  /\ load_progress(progress_file').failed = lists[2]
      ]_vars

\* a saved progress with a completed and a failed range, read back
C30_Witness ==
    /\ progress_file.kind = "ok"
    /\ Len(load_progress(progress_file).completed) = 1
    /\ Len(load_progress(progress_file).failed) = 1
    /\ load_progress(progress_file).completed[1].start_date
          < load_progress(progress_file).completed[1].end_date
    /\ load_progress(progress_file).failed[1].start_date
          > load_progress(progress_file).completed[1].end_date

(***************************************************************************)
(* C31: for one range navigate_to_search_page is attempted at most 3       *)
(* times; when the third attempt raises as well,                           *)
(* process_date_range returns False from its except block, the range is    *)
(* appended to the failed ranges, and the loop of run() stays on with the  *)
(* ranges that remain.                                                     *)
(***************************************************************************)
C31_NavigateBounded ==
    [][ /\ nav_attempt' < 3
        /\ (pdr_exit' = "except" /\ i' = i + 1) =>
              /\ ppc = "navigate"
              /\ nav_attempt = 2
              /\ last_result' = "false"
              /\ failed_ranges' = Append(failed_ranges, remaining_ranges[i + 1])
              /\ completed_ranges' = completed_ranges
              /\ rpc' = "loop"
              /\ remaining_ranges' = remaining_ranges
      ]_vars

\* the first range has come back from the except block and the second one
\* is still to be processed
C31_Witness ==
    /\ rpc = "loop"
    /\ ppc = "idle"
    /\ i = 1
    /\ pdr_exit = "except"
    /\ failed_ranges = <<remaining_ranges[1]>>
    /\ Len(remaining_ranges) = 2
    /\ interrupted = 0

(***************************************************************************)
(* C32: after a confirmed reset-progress command the progress file the     *)
(* scheduler reads is absent and get_remaining_ranges returns the whole    *)
(* partition, whatever earlier runs had saved.                             *)
(***************************************************************************)
C32_ResetClears ==
    reset_done =>
        /\ progress_file.kind = "absent"
        /\ get_remaining_ranges(start_year, end_year, max_days, progress_file)
              = get_all_date_ranges(start_year, end_year, max_days)

(***************************************************************************)
(* C33: the list get_remaining_ranges returns never holds the same range   *)
(* twice, so the loop of run() processes no range more than once in a run. *)
(***************************************************************************)
C33_NoRepeat ==
    rpc = "loop" =>
        /\ Distinct(get_remaining_ranges(start_year, end_year, max_days, progress_file))
        /\ Distinct(remaining_ranges)

(***************************************************************************)
(* C34: in every progress document run() has saved, no range is in both    *)
(* the completed and the failed list, and no range is twice in a list.     *)
(***************************************************************************)
C34_SavedListsDisjoint ==
    progress_file.kind = "ok" =>
        /\ SeqRange(progress_file.completed_ranges)
              \cap SeqRange(progress_file.failed_ranges) = {}
        /\ Distinct(progress_file.completed_ranges)
        /\ Distinct(progress_file.failed_ranges)

(***************************************************************************)
(* C35: extraction has no effect on the store: the step of                 *)
(* process_date_range that runs _extract_from_network_responses, and the   *)
(* one that runs extract_judgment_links, leave the collection as it was;   *)
(* records reach the store only in the save step that follows.             *)
(***************************************************************************)
C35_ExtractionFrame ==
    [][ (ppc \in {"extract", "page"} /\ ppc' \in {"save", "page", "api"}) =>
            collection' = collection ]_vars

\* the (diary number, case number, judgment date) of a submitted record, as
\* _save_judgments_to_mongodb reads them after cleaning
ContentTuple(judgment) ==
    LET cleaned == CleanJudgment(judgment)
    IN  <<DiaryNo(cleaned), CaseNumber(cleaned), JudgmentDate(cleaned)>>

(***************************************************************************)
(* C36: two records with different (diary number, case number, judgment    *)
(* date) never get the same judgment_id, so a record that is skipped       *)
(* because its judgment_id exists has its content in the store already.    *)
(***************************************************************************)
C36_IdInjective ==
    [][ (Len(log') = Len(log) + 1 /\ log'[Len(log')].outcome = "duplicate_id") =>
            LET tuple == ContentTuple(log'[Len(log')].judgment)
            IN  \E k \in 1..Len(collection) :
                    <<collection[k].diary_no, collection[k].case_number,
                      collection[k].judgment_date>> = tuple
      ]_vars

(***************************************************************************)
(* C37: for every configuration AppConfig.validate accepts, whatever the   *)
(* integer max_date_range_days, generate_date_ranges comes to an end, and  *)
(* every chunk it yields has a start date that is not after its end date.  *)
(***************************************************************************)
C37_GeneratorEnds ==
    /\ [](\A k \in 1..Len(all_ranges) :
             all_ranges[k].start_date <= all_ranges[k].end_date)
    /\ <>(gpc = "done")

\* the progress document on disk lists every range the run was given
AllRecorded ==
    /\ progress_file.kind = "ok"
    /\ \A k \in 1..Len(last_remaining) :
          to_dict(last_remaining[k]) \in
              SeqRange(progress_file.completed_ranges)
                 \cup SeqRange(progress_file.failed_ranges)

(***************************************************************************)
(* C38: when no interrupt occurs and every call returns or raises in       *)
(* finite time, a started run() comes to its end, and then every range     *)
(* get_remaining_ranges returned at its start is in the completed or the   *)
(* failed list of the saved progress document.                             *)
(***************************************************************************)
C38_RunEndsRecorded ==
    (rpc = "loop") ~> (rpc = "idle" /\ AllRecorded)

=============================================================================
